----------------------------- MODULE Market_proofs -----------------------------
(***************************************************************************)
(* Proofs about Market: about its deposits, for every set of scanners and  *)
(* transfers, every depth and batch size, and however many passes there    *)
(* are; and about its bookings, for every set of bookings and threads, and *)
(* however many calls and crashes there are.                               *)
(***************************************************************************)
EXTENDS Market, WellFoundedInduction, SequenceTheorems, FiniteSetTheorems, TLAPS

-------------------------------------------------------------------------------
(* The halves run side by side: a step of one leaves the other alone.      *)

DepositsSpec == DepositsInit /\ [][DepositsNext]_depositVars

BookingsSpec == BookingsBegin /\ [][BookingsNext]_bookingVars

LEMMA Halves == Spec => DepositsSpec /\ BookingsSpec
  <1>1. Init => DepositsInit /\ BookingsBegin
    <2>1. {} \in SUBSET Bookings /\ Cardinality({}) <= UnitsTotal
      BY FS_EmptySet, BookingsAssumption
    <2> QED  BY <2>1 DEF Init, BookingsInit, BookingsBegin
  <1>2. [Next]_vars => [DepositsNext]_depositVars /\ [BookingsNext]_bookingVars
    BY DEF Next, OfDeposits, OfBookings, vars
  <1> QED  BY <1>1, <1>2, PTL DEF Spec, DepositsSpec, BookingsSpec

-------------------------------------------------------------------------------
(* Deposits                                                                *)

Less == { p \in Nat \X Nat : p[1] < p[2] }

LEMMA LessIsWellFounded == IsWellFoundedOn(Less, Nat)
  BY NatLessThanWellFounded DEF OpToRel, Less

LEMMA MinOfNats ==
    ASSUME NEW S \in SUBSET Nat, S # {}
    PROVE  Min(S) \in S /\ \A y \in S : Min(S) <= y
  <1>1. PICK x \in S : \A y \in S : << y, x >> \notin Less
    BY WFMin, LessIsWellFounded
  <1>2. ASSUME NEW y \in S  PROVE x <= y
    <2>1. y \in Nat /\ x \in Nat
      OBVIOUS
    <2>2. << y, x >> \in Nat \X Nat /\ ~ (y < x)
      BY <1>1, <2>1 DEF Less
    <2> QED  BY <2>1, <2>2
  <1> QED  BY <1>2 DEF Min

LEMMA MinOfTwo ==
    ASSUME NEW x \in Int, NEW y \in Int
    PROVE  Min({x, y}) \in {x, y} /\ Min({x, y}) <= x /\ Min({x, y}) <= y
  <1>1. \E z \in {x, y} : \A u \in {x, y} : z <= u
    OBVIOUS
  <1> QED  BY <1>1 DEF Min

LEMMA MaxOfTwo ==
    ASSUME NEW x \in Int, NEW y \in Int
    PROVE  Max({x, y}) \in {x, y} /\ Max({x, y}) >= x /\ Max({x, y}) >= y
  <1>1. \E z \in {x, y} : \A u \in {x, y} : z >= u
    OBVIOUS
  <1> QED  BY <1>1 DEF Max

LEMMA FirstOf ==
    ASSUME NEW S \in SUBSET Transfers, S # {}
    PROVE  Min(S) \in S
  BY DepositsAssumption, MinOfNats

-------------------------------------------------------------------------------
(* Type correctness.                                                       *)

Statuses == Pending \cup {"none", "credited", "reported"}
Copies == UNION { [R -> Pending] : R \in SUBSET Transfers }
Blocks == (0..MaxHeight) \cup NamedBlocks

Passes ==
    [step : {"idle", "accept", "confirm", "load", "enter", "mark"},
     latest : Blocks, to : Blocks \cup {NoBlock}, skips : SUBSET Transfers,
     todo : SUBSET Transfers, rows : Copies, row : Nat]

Confirming == {"confirm", "load", "enter", "mark"}
Crediting == {"load", "enter", "mark"}

(* A pass goes over rows that it has copies of.                            *)
HasCopies(p) ==
    /\ p.step \in Confirming => p.todo \subseteq DOMAIN p.rows
    /\ p.step \in Crediting => p.row \in Transfers

TypedDeposits ==
    /\ height \in 0..MaxHeight
    /\ told \in NamedBlocks \cup {0}
    /\ deposit \in [Transfers -> Statuses]
    /\ block \in [Transfers -> Nat]
    /\ \A t \in Transfers : block[t] \in NamedBlocks \cup {0, t}
    /\ credits \in [Transfers -> Nat]
    /\ checkpoint \in Blocks \cup {NoBlock}
    /\ pass \in [Scanners -> Passes]
    /\ \A s \in Scanners : HasCopies(pass[s])

LEMMA BlocksAreNats ==
    /\ Blocks \subseteq Nat /\ NamedBlocks \subseteq Blocks /\ 0 \in Blocks
    /\ Transfers \subseteq Nat \ {0} /\ NoBlock = -1
  BY DepositsAssumption DEF Blocks, NoBlock

LEMMA IdlePass == NoPass \in Passes /\ HasCopies(NoPass)
  <1>1. << >> \in [{} -> Pending]
    <2>1. << >> \in Seq(Pending) /\ Len(<< >>) = 0
      BY EmptySeq
    <2>2. << >> \in [1..0 -> Pending]
      BY <2>1, LenProperties, Zenon
    <2>3. 1..0 = {}
      OBVIOUS
    <2> QED  BY <2>2, <2>3
  <1>2. << >> \in Copies
    BY <1>1 DEF Copies
  <1> QED  BY <1>2, BlocksAreNats DEF NoPass, Passes, HasCopies, Confirming, Crediting

LEMMA PassGoes ==
    ASSUME TypedDeposits, NEW s \in Scanners, NEW p \in Passes, HasCopies(p), Goes(s, p)
    PROVE  /\ pass' \in [Scanners -> Passes]
           /\ \A r \in Scanners : HasCopies(pass'[r])
  BY DEF Goes, TypedDeposits

(* The range that the scanner process polls.                               *)
LEMMA PollRange ==
    ASSUME TypedDeposits, NEW latest \in Nat, latest <= height
    PROVE  LET from == ScanFrom(latest)
               to == Min({latest, from + BatchSize - 1})
           IN  /\ from \in Nat /\ to \in 0..MaxHeight /\ to <= latest
               /\ checkpoint # NoBlock => from = checkpoint + 1
  <1> DEFINE from == ScanFrom(latest)
             to == Min({latest, from + BatchSize - 1})
  <1>1. latest - BatchSize + 1 \in Int /\ BatchSize \in Nat \ {0} /\ MaxHeight \in Nat
    BY DepositsAssumption
  <1>2. from \in Nat /\ (checkpoint # NoBlock => from = checkpoint + 1)
    <2>1. CASE checkpoint = NoBlock
      <3> DEFINE m == Max({0, latest - BatchSize + 1})
      <3>1. m \in {0, latest - BatchSize + 1} /\ m >= 0
        BY <1>1, MaxOfTwo
      <3> HIDE DEF m
      <3>2. m \in Nat
        BY <1>1, <3>1
      <3> QED  BY <2>1, <3>2 DEF ScanFrom, m
    <2>2. CASE checkpoint # NoBlock
      BY <2>2, BlocksAreNats DEF ScanFrom, TypedDeposits
    <2> QED  BY <2>1, <2>2
  <1> HIDE DEF from
  <1>3. from + BatchSize - 1 \in Nat
    BY <1>1, <1>2
  <1>4. to \in Nat /\ to <= latest
    <2> DEFINE end == from + BatchSize - 1
    <2>1. to \in {latest, end} /\ to <= latest
      <3>1. end \in Int /\ latest \in Int
        BY <1>3
      <3> HIDE DEF end
      <3>2. Min({latest, end}) \in {latest, end} /\ Min({latest, end}) <= latest
        BY <3>1, MinOfTwo
      <3> QED  BY <3>2 DEF end
    <2> QED  BY <1>3, <2>1
  <1>5. height \in Nat /\ height <= MaxHeight
    BY <1>1 DEF TypedDeposits
  <1> HIDE DEF to
  <1>6. to \in 0..MaxHeight
    BY <1>1, <1>4, <1>5
  <1> QED  BY <1>2, <1>4, <1>6 DEF from, to

LEMMA PollTypes ==
    ASSUME TypedDeposits, NEW s \in Scanners, NEW latest \in 1..MaxHeight, Poll(s, latest)
    PROVE  TypedDeposits'
  <1> DEFINE from == ScanFrom(latest)
             to == Min({latest, from + BatchSize - 1})
             p == [NoPass EXCEPT !.step = "accept", !.latest = latest, !.to = to,
                                 !.skips = Before(from), !.todo = Transfers \cap (from..to)]
  <1>1. latest \in Nat /\ latest <= height /\ latest \in Blocks
    BY DepositsAssumption DEF Poll, TypedDeposits, Blocks
  <1>2. to \in Blocks
    BY <1>1, PollRange DEF Blocks
  <1>3. Goes(s, p) /\ UNCHANGED << height, deposit, block, credits, checkpoint, told >>
    BY DEF Poll
  <1> HIDE DEF from, to
  <1>4. Before(from) \in SUBSET Transfers
    BY DEF Before
  <1>5. p \in Passes
    BY <1>1, <1>2, <1>4, IdlePass DEF Passes, NoPass
  <1>6. HasCopies(p)
    BY DEF HasCopies, NoPass, Confirming, Crediting
  <1> HIDE DEF p
  <1> QED  BY <1>3, <1>5, <1>6, PassGoes DEF TypedDeposits

LEMMA NamesType ==
    ASSUME TypedDeposits, NEW latest \in NamedBlocks, Names(latest)
    PROVE  told' \in NamedBlocks \cup {0} /\ told <= told' /\ latest <= told'
  <1>1. told \in Nat /\ latest \in Nat
    BY BlocksAreNats DEF TypedDeposits
  <1>2. /\ Max({told, latest}) \in {told, latest}
        /\ Max({told, latest}) >= told /\ Max({told, latest}) >= latest
    BY <1>1, MaxOfTwo
  <1>3. told' \in {told, latest} /\ told' >= told /\ told' >= latest
    BY <1>2 DEF Names
  <1> QED  BY <1>1, <1>3 DEF TypedDeposits

(* What a caller polls: its own range, height and transfers.               *)
AskedPass(to, latest, found) ==
    [NoPass EXCEPT !.step = "accept", !.latest = latest, !.to = to, !.todo = found,
                   !.skips = { t \in Transfers : checkpoint < t /\ t <= to } \ found]

LEMMA AskedPassType ==
    ASSUME NEW to \in NamedBlocks, NEW latest \in NamedBlocks, NEW found \in SUBSET Transfers
    PROVE  AskedPass(to, latest, found) \in Passes /\ HasCopies(AskedPass(to, latest, found))
  <1>1. to \in Blocks /\ latest \in Blocks
    BY BlocksAreNats
  <1>2. { t \in Transfers : checkpoint < t /\ t <= to } \ found \in SUBSET Transfers
    OBVIOUS
  <1> QED  BY <1>1, <1>2, IdlePass DEF AskedPass, Passes, NoPass, HasCopies, Confirming, Crediting

LEMMA PollAskedTypes ==
    ASSUME TypedDeposits, NEW s \in Scanners, PollAsked(s)
    PROVE  TypedDeposits'
  <1>1. PICK to \in NamedBlocks, latest \in NamedBlocks, found \in SUBSET Transfers :
            Names(latest) /\ Goes(s, AskedPass(to, latest, found))
    BY DEF PollAsked, AskedPass
  <1>2. UNCHANGED << height, deposit, block, credits, checkpoint >>
    BY DEF PollAsked
  <1> QED  BY <1>1, <1>2, AskedPassType, NamesType, PassGoes DEF TypedDeposits

(* The pass that has read its rows.                                        *)
RowsRead(q) ==
    [q EXCEPT !.step = "confirm", !.todo = Rows(q.latest), !.rows = [t \in Rows(q.latest) |-> deposit[t]]]

LEMMA RowsReadType ==
    ASSUME TypedDeposits, NEW q \in Passes
    PROVE  RowsRead(q) \in Passes /\ HasCopies(RowsRead(q))
  <1> DEFINE rows == [t \in Rows(q.latest) |-> deposit[t]]
  <1>1. Rows(q.latest) \subseteq Transfers
    BY DEF Rows
  <1>2. rows \in [Rows(q.latest) -> Pending]
    BY DEF Rows
  <1>3. rows \in Copies
    BY <1>1, <1>2 DEF Copies
  <1>4. DOMAIN rows = Rows(q.latest)
    OBVIOUS
  <1>5. RowsRead(q) = [q EXCEPT !.step = "confirm", !.todo = Rows(q.latest), !.rows = rows]
    BY DEF RowsRead
  <1> HIDE DEF rows
  <1> QED  BY <1>1, <1>3, <1>4, <1>5 DEF Passes, HasCopies, Confirming, Crediting

(* What LoadDeposit does, by what it finds.                                *)
LEMMA LoadChooses ==
    ASSUME TypedDeposits, NEW s \in Scanners, LoadDeposit(s), pass[s].row \in Transfers
    PROVE  LET t == pass[s].row
           IN  /\ \/ Goes(s, NoPass)
                  \/ Goes(s, [pass[s] EXCEPT !.step = "enter"])
                  \/ credits[t] > 0 /\ Goes(s, [pass[s] EXCEPT !.step = "mark"])
                  \/ Credited(s)
               /\ UNCHANGED << height, deposit, block, credits, checkpoint, told, passedOver >>
  <1> DEFINE t == pass[s].row
  <1>1. t \in Transfers /\ credits[t] \in Nat
    BY DEF TypedDeposits
  <1> HIDE DEF t
  <1>2. CASE deposit[t] \notin {"confirmed", "credited"}
    BY <1>1, <1>2 DEF LoadDeposit, t
  <1>3. CASE deposit[t] \in {"confirmed", "credited"} /\ credits[t] = 0
    BY <1>1, <1>3 DEF LoadDeposit, t
  <1>4. CASE deposit[t] = "confirmed" /\ credits[t] > 0
    BY <1>1, <1>4 DEF LoadDeposit, t
  <1>5. CASE deposit[t] = "credited" /\ credits[t] > 0
    BY <1>1, <1>5 DEF LoadDeposit, t
  <1>6. credits[t] = 0 \/ credits[t] > 0
    BY <1>1
  <1> QED  BY <1>2, <1>3, <1>4, <1>5, <1>6 DEF t

(* What Confirm does to the row it picks.                                  *)
LEMMA ConfirmPicks ==
    ASSUME TypedDeposits, NEW s \in Scanners, Confirm(s)
    PROVE  \E t \in pass[s].todo, status \in Pending :
              /\ t \in Transfers
              /\ deposit' = [deposit EXCEPT ![t] = status]
              /\ \/ /\ Deep(block[t], pass[s].latest)
                    /\ Goes(s, [pass[s] EXCEPT !.step = "load", !.todo = @ \ {t}, !.row = t])
                 \/ Goes(s, [pass[s] EXCEPT !.todo = @ \ {t}])
  <1>1. pass[s] \in Passes /\ HasCopies(pass[s])
    BY DEF TypedDeposits
  <1>2. PICK t \in pass[s].todo :
          IF Deep(block[t], pass[s].latest)
          THEN /\ deposit' = [deposit EXCEPT ![t] = "confirmed"]
               /\ Goes(s, [pass[s] EXCEPT !.step = "load", !.todo = @ \ {t}, !.row = t])
          ELSE /\ deposit' = [deposit EXCEPT ![t] =
                      IF pass[s].rows[t] = "detected" THEN "confirming" ELSE pass[s].rows[t]]
               /\ Goes(s, [pass[s] EXCEPT !.todo = @ \ {t}])
    BY DEF Confirm
  <1>3. t \in Transfers /\ pass[s].rows[t] \in Pending
    BY <1>1, <1>2 DEF Confirm, Passes, Copies, HasCopies, Confirming
  <1>4. {"confirmed", "confirming"} \subseteq Pending
    BY DEF Pending
  <1>5. CASE Deep(block[t], pass[s].latest)
    BY <1>2, <1>3, <1>4, <1>5
  <1>6. CASE ~ Deep(block[t], pass[s].latest)
    <2> DEFINE status == IF pass[s].rows[t] = "detected" THEN "confirming" ELSE pass[s].rows[t]
    <2>1. status \in Pending
      BY <1>3, <1>4
    <2>2. deposit' = [deposit EXCEPT ![t] = status] /\ Goes(s, [pass[s] EXCEPT !.todo = @ \ {t}])
      BY <1>2, <1>6
    <2> HIDE DEF status
    <2> QED  BY <1>2, <1>3, <2>1, <2>2
  <1> QED  BY <1>5, <1>6

LEMMA PassTypes ==
    ASSUME TypedDeposits, NEW s \in Scanners, PassStep(s)
    PROVE  TypedDeposits'
  <1>1. pass[s] \in Passes /\ HasCopies(pass[s])
    BY DEF TypedDeposits
  <1>2. CASE AcceptDeposit(s)
    <2> DEFINE t == Min(pass[s].todo)
               next == [pass[s] EXCEPT !.todo = @ \ {t}]
               without == [pass[s] EXCEPT !.todo = @ \ {t}, !.skips = @ \cup {t}]
    <2>1. t \in Transfers
      BY <1>1, <1>2, FirstOf DEF AcceptDeposit, Passes
    <2>2. /\ \/ Records(t, t, "detected") /\ Goes(s, next)
             \/ Goes(s, without) /\ UNCHANGED << deposit, block >>
             \/ Goes(s, next) /\ UNCHANGED << deposit, block >>
          /\ UNCHANGED << height, credits, checkpoint, told >>
      BY <1>2 DEF AcceptDeposit
    <2>3. pass[s].step = "accept"
      BY <1>2 DEF AcceptDeposit
    <2> HIDE DEF t
    <2>4. next \in Passes /\ without \in Passes
      BY <1>1, <2>1 DEF Passes
    <2>5. HasCopies(next) /\ HasCopies(without)
      BY <1>1, <2>3 DEF Passes, HasCopies, Confirming, Crediting
    <2>6. /\ deposit' \in [Transfers -> Statuses] /\ block' \in [Transfers -> Nat]
          /\ \A u \in Transfers : block'[u] \in NamedBlocks \cup {0, u}
      BY <2>1, <2>2, BlocksAreNats DEF Records, TypedDeposits, Statuses, Pending
    <2> HIDE DEF next, without
    <2> QED  BY <2>2, <2>4, <2>5, <2>6, PassGoes DEF TypedDeposits
  <1>3. CASE ReadRows(s)
    <2>1. Goes(s, RowsRead(pass[s])) /\ UNCHANGED << height, deposit, block, credits, checkpoint, told >>
      BY <1>3 DEF ReadRows, Confirms, RowsRead
    <2> QED  BY <1>1, <2>1, RowsReadType, PassGoes DEF TypedDeposits
  <1>4. CASE Confirm(s)
    <2>1. PICK t \in pass[s].todo, status \in Pending :
              /\ t \in Transfers
              /\ deposit' = [deposit EXCEPT ![t] = status]
              /\ \/ Goes(s, [pass[s] EXCEPT !.step = "load", !.todo = @ \ {t}, !.row = t])
                 \/ Goes(s, [pass[s] EXCEPT !.todo = @ \ {t}])
      BY <1>4, ConfirmPicks
    <2> DEFINE load == [pass[s] EXCEPT !.step = "load", !.todo = @ \ {t}, !.row = t]
               next == [pass[s] EXCEPT !.todo = @ \ {t}]
    <2>2. load \in Passes /\ next \in Passes
      BY <1>1, <2>1, BlocksAreNats DEF Passes
    <2>3. HasCopies(load) /\ HasCopies(next)
      BY <1>1, <1>4, <2>1 DEF Confirm, Passes, HasCopies, Confirming, Crediting
    <2>4. Goes(s, load) \/ Goes(s, next)
      BY <2>1
    <2>5. deposit' \in [Transfers -> Statuses]
      BY <2>1 DEF TypedDeposits, Statuses
    <2>6. UNCHANGED << height, block, credits, checkpoint, told >>
      BY <1>4 DEF Confirm
    <2> HIDE DEF load, next
    <2> QED  BY <2>2, <2>3, <2>4, <2>5, <2>6, PassGoes DEF TypedDeposits
  <1>5. CASE LoadDeposit(s)
    <2> DEFINE enter == [pass[s] EXCEPT !.step = "enter"]
               mark == [pass[s] EXCEPT !.step = "mark"]
               next == [pass[s] EXCEPT !.step = "confirm", !.row = 0]
    <2>1. pass[s].row \in Transfers
      BY <1>1, <1>5 DEF LoadDeposit, HasCopies, Crediting
    <2>2. /\ Goes(s, NoPass) \/ Goes(s, enter) \/ Goes(s, mark) \/ Goes(s, next)
          /\ UNCHANGED << height, deposit, block, credits, checkpoint, told >>
      BY <1>5, <2>1, LoadChooses DEF Credited
    <2>3. /\ enter \in Passes /\ HasCopies(enter)
          /\ mark \in Passes /\ HasCopies(mark)
          /\ next \in Passes /\ HasCopies(next)
      BY <1>1, <1>5 DEF LoadDeposit, Passes, HasCopies, Confirming, Crediting
    <2> HIDE DEF enter, mark, next
    <2> QED  BY <2>2, <2>3, IdlePass, PassGoes DEF TypedDeposits
  <1>6. CASE EnterCredit(s)
    <2> DEFINE mark == [pass[s] EXCEPT !.step = "mark"]
    <2>1. pass[s].row \in Transfers
      BY <1>1, <1>6 DEF EnterCredit, HasCopies, Crediting
    <2>2. credits' \in [Transfers -> Nat]
      BY <1>6, <2>1 DEF EnterCredit, EntriesOf, TypedDeposits
    <2>3. mark \in Passes /\ HasCopies(mark)
      BY <1>1, <1>6 DEF EnterCredit, Passes, HasCopies, Confirming, Crediting
    <2>4. Goes(s, mark) /\ UNCHANGED << height, deposit, block, checkpoint, told >>
      BY <1>6 DEF EnterCredit
    <2> HIDE DEF mark
    <2> QED  BY <2>2, <2>3, <2>4, PassGoes DEF TypedDeposits
  <1>7. CASE MarkCredited(s)
    <2> DEFINE next == [pass[s] EXCEPT !.step = "confirm", !.row = 0]
    <2>1. deposit' \in [Transfers -> Statuses]
      BY <1>7 DEF MarkCredited, Marked, TypedDeposits, Statuses
    <2>2. next \in Passes /\ HasCopies(next)
      BY <1>1, <1>7 DEF MarkCredited, Passes, HasCopies, Confirming, Crediting
    <2>3. Goes(s, next) /\ UNCHANGED << height, block, credits, checkpoint, told >>
      BY <1>7 DEF MarkCredited, Credited
    <2> HIDE DEF next
    <2> QED  BY <2>1, <2>2, <2>3, PassGoes DEF TypedDeposits
  <1>8. CASE EndPass(s)
    <2>1. checkpoint' \in Blocks \cup {NoBlock}
      BY <1>1, <1>8 DEF EndPass, ScannedTo, Passes, TypedDeposits
    <2>2. Goes(s, NoPass) /\ UNCHANGED << height, deposit, block, credits, told >>
      BY <1>8 DEF EndPass
    <2> QED  BY <2>1, <2>2, IdlePass, PassGoes DEF TypedDeposits
  <1> QED  BY <1>2, <1>3, <1>4, <1>5, <1>6, <1>7, <1>8 DEF PassStep

LEMMA DepositsStayTyped == DepositsSpec => []TypedDeposits
  <1>1. DepositsInit => TypedDeposits
    BY IdlePass, DepositsAssumption DEF DepositsInit, TypedDeposits, Statuses
  <1>2. TypedDeposits /\ [DepositsNext]_depositVars => TypedDeposits'
    <2> SUFFICES ASSUME TypedDeposits, [DepositsNext]_depositVars  PROVE TypedDeposits'
      OBVIOUS
    <2>1. CASE Grow
      <3>1. height' \in 0..MaxHeight
        BY <2>1, DepositsAssumption DEF Grow, TypedDeposits
      <3> QED  BY <2>1, <3>1 DEF Grow, TypedDeposits
    <2>2. ASSUME NEW t \in Transfers, Report(t)  PROVE TypedDeposits'
      <3>1. PICK at \in NamedBlocks, status \in ReportedAs : Records(t, at, status)
        BY <2>2 DEF Report
      <3>2. status \in Statuses /\ at \in Nat
        BY BlocksAreNats, DepositsAssumption DEF Statuses, Pending
      <3>3. /\ deposit' \in [Transfers -> Statuses] /\ block' \in [Transfers -> Nat]
            /\ \A u \in Transfers : block'[u] \in NamedBlocks \cup {0, u}
        BY <3>1, <3>2 DEF Records, TypedDeposits
      <3> QED  BY <2>2, <3>3 DEF Report, TypedDeposits
    <2>3. ASSUME NEW s \in Scanners, ProcessConfirmations(s)  PROVE TypedDeposits'
      <3>1. PICK latest \in NamedBlocks : Names(latest) /\ Confirms(s, [NoPass EXCEPT !.latest = latest])
        BY <2>3 DEF ProcessConfirmations
      <3> DEFINE q == [NoPass EXCEPT !.latest = latest]
      <3>2. q \in Passes
        BY IdlePass, BlocksAreNats DEF Passes
      <3>3. Goes(s, RowsRead(q))
        BY <3>1 DEF Confirms, RowsRead
      <3> HIDE DEF q
      <3>4. UNCHANGED << height, deposit, block, credits, checkpoint >>
        BY <2>3 DEF ProcessConfirmations
      <3> QED  BY <3>1, <3>2, <3>3, <3>4, RowsReadType, NamesType, PassGoes DEF TypedDeposits
    <2>4. ASSUME NEW s \in Scanners, PassDies(s)  PROVE TypedDeposits'
      BY <2>4, IdlePass, PassGoes DEF PassDies, TypedDeposits
    <2>5. CASE UNCHANGED depositVars
      BY <2>5 DEF depositVars, TypedDeposits
    <2> QED  BY <2>1, <2>2, <2>3, <2>4, <2>5, PollTypes, PollAskedTypes, PassTypes DEF DepositsNext
  <1> QED  BY <1>1, <1>2, PTL DEF DepositsSpec

(* A pass holds transfers that exist and a height of the chain or a named  *)
(* one.                                                                    *)
LEMMA DepositsTyped == DepositsSpec => []DepositsTypeOK
  <1>1. TypedDeposits => DepositsTypeOK
    <2> SUFFICES ASSUME TypedDeposits  PROVE DepositsTypeOK
      OBVIOUS
    <2>1. 0..MaxHeight \subseteq NoBlock..MaxHeight /\ NoBlock \in NoBlock..MaxHeight
      BY DepositsAssumption DEF NoBlock
    <2>2. checkpoint \in (NoBlock..MaxHeight) \cup NamedBlocks
      BY <2>1 DEF TypedDeposits, Blocks
    <2>3. \A s \in Scanners : pass[s].latest \in (0..MaxHeight) \cup NamedBlocks /\ pass[s].todo \subseteq Transfers
      BY DEF TypedDeposits, Passes, Blocks
    <2> QED  BY <2>2, <2>3 DEF TypedDeposits, DepositsTypeOK, Statuses
  <1> QED  BY <1>1, DepositsStayTyped, PTL

-------------------------------------------------------------------------------
(* What a pass relies on: its rows are recorded, the one it is crediting is*)
(* deep enough at its height, which is the chain's or a named one, the mark*)
(* follows the entry, and the transfers of its range are recorded but for  *)
(* those it skips, or has yet to accept, and those passed over before. All *)
(* of it stays true whatever the others do.                                *)

Known == Max({height, told})

Sound(p, c, d, b, k, o) ==
    /\ p.latest <= k
    /\ p.step \in Confirming => \A t \in p.todo : d[t] # "none"
    /\ p.step \in Crediting => d[p.row] # "none" /\ Deep(b[p.row], p.latest)
    /\ p.step = "mark" => c[p.row] = 1
    /\ \A t \in Transfers :
        t <= p.to /\ (p.step = "accept" => t \notin p.todo) => d[t] # "none" \/ t \in p.skips \/ t \in o

AllSound == \A s \in Scanners : Sound(pass[s], credits, deposit, block, Known, passedOver)

DepositsInv ==
    /\ CreditedOnce
    /\ NoTransferSkipped
    /\ \A t \in Transfers : credits[t] > 0 => deposit[t] # "none"
    /\ AllSound

Grows ==
    /\ \A t \in Transfers : credits[t] = 1 => credits'[t] = 1
    /\ \A t \in Transfers : deposit[t] # "none" => deposit'[t] # "none" /\ block'[t] = block[t]
    /\ Known <= Known'
    /\ passedOver \subseteq passedOver'

LEMMA MaxIsNat ==
    ASSUME NEW h \in Nat, NEW g \in Nat
    PROVE  Max({h, g}) \in Nat /\ h <= Max({h, g}) /\ g <= Max({h, g}) /\ Max({h, g}) \in {h, g}
  BY MaxOfTwo

LEMMA KnownHeight ==
    ASSUME TypedDeposits
    PROVE  /\ Known \in Nat /\ height <= Known /\ told <= Known /\ height \in Nat /\ told \in Nat
           /\ Known \in {height, told}
  <1>1. height \in Nat /\ told \in Nat
    BY BlocksAreNats DEF TypedDeposits
  <1> QED  BY <1>1, MaxIsNat DEF Known

LEMMA KnownNext ==
    ASSUME TypedDeposits'
    PROVE  /\ Known' \in Nat /\ height' <= Known' /\ told' <= Known' /\ height' \in Nat /\ told' \in Nat
           /\ Known' \in {height', told'}
  <1>1. height' \in Nat /\ told' \in Nat
    BY BlocksAreNats DEF TypedDeposits
  <1>2. SUFFICES ASSUME NEW h \in Nat, NEW g \in Nat, h = height', g = told'
                 PROVE  /\ Known' \in Nat /\ height' <= Known' /\ told' <= Known'
                        /\ height' \in Nat /\ told' \in Nat /\ Known' \in {height', told'}
    BY <1>1
  <1>3. Max({h, g}) \in Nat /\ h <= Max({h, g}) /\ g <= Max({h, g}) /\ Max({h, g}) \in {h, g}
    BY MaxIsNat
  <1>4. Known' = Max({h, g})
    BY <1>2 DEF Known
  <1> QED  BY <1>2, <1>3, <1>4

LEMMA KnownGrows ==
    ASSUME TypedDeposits, TypedDeposits', height <= height', told <= told'
    PROVE  Known <= Known' /\ Known' \in Nat /\ told' <= Known' /\ height' <= Known'
  <1>1. /\ Known \in {height, told} /\ height \in Nat /\ told \in Nat
    BY KnownHeight
  <1>2. Known' \in Nat /\ height' <= Known' /\ told' <= Known' /\ height' \in Nat /\ told' \in Nat
    BY KnownNext
  <1> QED  BY <1>1, <1>2

(* The same height, or a later one: what was deep is.                      *)
LEMMA DeepLater ==
    ASSUME NEW at \in Nat, NEW k \in Nat, NEW l \in Nat, k <= l, Deep(at, k)
    PROVE  Deep(at, l)
  BY DepositsAssumption DEF Deep

LEMMA StaysSound ==
    ASSUME TypedDeposits, TypedDeposits', AllSound, NEW s \in Scanners, NEW p \in Passes,
           Sound(p, credits', deposit', block', Known', passedOver'),
           Goes(s, p), Grows
    PROVE  AllSound'
  <1> SUFFICES ASSUME NEW r \in Scanners
               PROVE  Sound(pass'[r], credits', deposit', block', Known', passedOver')
    BY DEF AllSound
  <1>1. CASE r = s
    BY <1>1 DEF Goes, TypedDeposits
  <1>2. CASE r # s
    <2>1. /\ pass'[r] = pass[r] /\ pass[r] \in Passes /\ HasCopies(pass[r])
          /\ Sound(pass[r], credits, deposit, block, Known, passedOver)
      BY <1>2 DEF Goes, TypedDeposits, AllSound
    <2>2. Known \in Nat /\ Known' \in Nat /\ Known <= Known' /\ pass[r].latest \in Nat
      <3>1. Known' \in Nat
        BY KnownNext
      <3> QED  BY <2>1, <3>1, KnownHeight, BlocksAreNats DEF Grows, Passes
    <2>3. pass[r].latest <= Known'
      BY <2>1, <2>2 DEF Sound
    <2>4. pass[r].todo \subseteq Transfers /\ (pass[r].step \in Crediting => pass[r].row \in Transfers)
      BY <2>1 DEF Passes, HasCopies
    <2>5. pass[r].step = "mark" => pass[r].step \in Crediting
      BY DEF Crediting
    <2> QED  BY <2>1, <2>3, <2>4, <2>5 DEF Sound, Grows
  <1> QED  BY <1>1, <1>2

LEMMA IdleIsSound == \A c, d, b, o : \A k \in Nat : Sound(NoPass, c, d, b, k, o)
  BY BlocksAreNats DEF NoPass, Sound, Confirming, Crediting

(* A step that leaves deposits and credits alone.                          *)
LEMMA OnlyPasses ==
    ASSUME TypedDeposits, TypedDeposits', DepositsInv, AllSound',
           UNCHANGED << deposit, block, credits >>, NoTransferSkipped',
           height <= height', told <= told'
    PROVE  DepositsInv'
  <1>1. Known \in Nat /\ Known' \in Nat /\ Known <= Known'
    BY KnownHeight, KnownGrows
  <1>2. ASSUME NEW t \in Transfers, Deep(block[t], Known)  PROVE Deep(block'[t], Known')
    <2>1. block[t] \in Nat /\ block'[t] = block[t]
      BY DEF TypedDeposits
    <2> QED  BY <1>1, <1>2, <2>1, DeepLater
  <1>3. CreditedOnce'
    BY <1>2 DEF DepositsInv, CreditedOnce, Known
  <1> QED  BY <1>3 DEF DepositsInv

LEMMA PollKeeps ==
    ASSUME TypedDeposits, TypedDeposits', DepositsInv, NEW s \in Scanners,
           NEW latest \in 1..MaxHeight, Poll(s, latest)
    PROVE  DepositsInv'
  <1> DEFINE from == ScanFrom(latest)
             to == Min({latest, from + BatchSize - 1})
             p == [NoPass EXCEPT !.step = "accept", !.latest = latest, !.to = to,
                                 !.skips = Before(from), !.todo = Transfers \cap (from..to)]
  <1>1. latest \in Nat /\ latest <= height /\ latest \in Blocks
    BY DepositsAssumption DEF Poll, TypedDeposits, Blocks
  <1>2. from \in Nat /\ to \in 0..MaxHeight /\ (checkpoint # NoBlock => from = checkpoint + 1)
    BY <1>1, PollRange
  <1>3. Goes(s, p) /\ UNCHANGED << height, deposit, block, credits, checkpoint, told, passedOver >>
    BY DEF Poll
  <1> HIDE DEF from, to
  <1>4. /\ p.step = "accept" /\ p.latest = latest /\ p.to = to
        /\ p.skips = Before(from) /\ p.todo = Transfers \cap (from..to)
    BY DEF NoPass
  <1>5. p \in Passes
    BY <1>1, <1>2, IdlePass, BlocksAreNats DEF Passes, Blocks, Before, NoPass
  <1> HIDE DEF p
  <1>6. Known' = Known /\ Known \in Nat /\ height <= Known /\ height \in Nat
    BY <1>3, KnownHeight DEF Known
  <1>7. ASSUME NEW t \in Transfers, t <= p.to, t \notin p.todo
        PROVE  deposit[t] # "none" \/ t \in p.skips \/ t \in passedOver
    <2>1. t \in Nat /\ to \in Nat /\ t < from
      BY <1>2, <1>4, <1>7, BlocksAreNats, DepositsAssumption
    <2>2. CASE checkpoint = NoBlock
      BY <1>4, <2>1, <2>2 DEF Before
    <2>3. CASE checkpoint # NoBlock
      <3>1. checkpoint \in Nat /\ t <= checkpoint
        BY <1>2, <2>1, <2>3, BlocksAreNats DEF TypedDeposits
      <3> QED  BY <3>1 DEF DepositsInv, NoTransferSkipped
    <2> QED  BY <2>2, <2>3
  <1>8. Sound(p, credits', deposit', block', Known', passedOver')
    BY <1>1, <1>3, <1>4, <1>6, <1>7 DEF Sound, Confirming, Crediting
  <1>9. Grows
    BY <1>3, <1>6 DEF Grows
  <1>10. AllSound'
    BY <1>3, <1>5, <1>8, <1>9, StaysSound DEF DepositsInv
  <1>11. NoTransferSkipped'
    BY <1>3 DEF DepositsInv, NoTransferSkipped
  <1>12. height <= height' /\ told <= told'
    BY <1>3, KnownHeight
  <1> QED  BY <1>3, <1>10, <1>11, <1>12, OnlyPasses

LEMMA PollAskedKeeps ==
    ASSUME TypedDeposits, TypedDeposits', DepositsInv, NEW s \in Scanners, PollAsked(s)
    PROVE  DepositsInv'
  <1>1. PICK to \in NamedBlocks, latest \in NamedBlocks, found \in SUBSET Transfers :
            Names(latest) /\ Goes(s, AskedPass(to, latest, found))
    BY DEF PollAsked, AskedPass
  <1> DEFINE p == AskedPass(to, latest, found)
  <1>2. /\ p.step = "accept" /\ p.latest = latest /\ p.to = to /\ p.todo = found
        /\ p.skips = { t \in Transfers : checkpoint < t /\ t <= to } \ found
    BY DEF AskedPass, NoPass
  <1>3. p \in Passes /\ Goes(s, p)
    BY <1>1, AskedPassType
  <1> HIDE DEF p
  <1>4. UNCHANGED << height, deposit, block, credits, checkpoint, passedOver >>
    BY DEF PollAsked
  <1>5. told <= told' /\ latest <= told'
    BY <1>1, NamesType
  <1>6. height <= height'
    BY <1>4, KnownHeight
  <1>7. Known <= Known' /\ Known' \in Nat /\ told' <= Known'
    BY <1>5, <1>6, KnownGrows
  <1>8. latest <= Known'
    BY <1>5, <1>7, BlocksAreNats DEF TypedDeposits
  <1>9. ASSUME NEW t \in Transfers, t <= p.to, t \notin p.todo
        PROVE  deposit[t] # "none" \/ t \in p.skips \/ t \in passedOver
    <2>1. t \in Nat /\ (checkpoint \in Nat \/ checkpoint = -1)
      BY BlocksAreNats DEF TypedDeposits
    <2>2. CASE checkpoint < t
      BY <1>2, <1>9, <2>2
    <2>3. CASE t <= checkpoint
      BY <2>3 DEF DepositsInv, NoTransferSkipped
    <2> QED  BY <2>1, <2>2, <2>3
  <1>10. Sound(p, credits', deposit', block', Known', passedOver')
    BY <1>2, <1>4, <1>8, <1>9 DEF Sound, Confirming, Crediting
  <1>11. Grows
    BY <1>4, <1>7 DEF Grows
  <1>12. AllSound'
    BY <1>3, <1>10, <1>11, StaysSound DEF DepositsInv
  <1>13. NoTransferSkipped'
    BY <1>4 DEF DepositsInv, NoTransferSkipped
  <1> QED  BY <1>4, <1>5, <1>6, <1>12, <1>13, OnlyPasses

(* A pass that has read its rows is sound where it was.                    *)
LEMMA RowsReadSound ==
    ASSUME TypedDeposits, NEW q \in Passes, q.step \in {"idle", "accept"},
           q.step = "accept" => q.todo = {}, NEW k,
           q.latest <= k,
           \A t \in Transfers :
              t <= q.to => deposit[t] # "none" \/ t \in q.skips \/ t \in passedOver
    PROVE  Sound(RowsRead(q), credits, deposit, block, k, passedOver)
  <1>1. /\ RowsRead(q).step = "confirm" /\ RowsRead(q).latest = q.latest /\ RowsRead(q).to = q.to
        /\ RowsRead(q).skips = q.skips /\ RowsRead(q).todo = Rows(q.latest)
    BY DEF RowsRead, Passes
  <1>2. \A t \in Rows(q.latest) : deposit[t] # "none"
    BY DEF Rows, Pending
  <1> QED  BY <1>1, <1>2 DEF Sound, Crediting

LEMMA AcceptKeeps ==
    ASSUME TypedDeposits, TypedDeposits', DepositsInv, NEW s \in Scanners, AcceptDeposit(s)
    PROVE  DepositsInv'
  <1> DEFINE t == Min(pass[s].todo)
             next == [pass[s] EXCEPT !.todo = @ \ {t}]
             without == [pass[s] EXCEPT !.todo = @ \ {t}, !.skips = @ \cup {t}]
  <1>1. /\ pass[s] \in Passes /\ Sound(pass[s], credits, deposit, block, Known, passedOver)
        /\ pass[s].step = "accept"
    BY DEF TypedDeposits, DepositsInv, AllSound, AcceptDeposit
  <1>2. t \in Transfers
    BY <1>1, FirstOf DEF AcceptDeposit, Passes
  <1>3. /\ \/ Records(t, t, "detected") /\ Goes(s, next)
           \/ Goes(s, without) /\ UNCHANGED << deposit, block >>
           \/ deposit[t] # "none" /\ Goes(s, next) /\ UNCHANGED << deposit, block >>
        /\ UNCHANGED << height, credits, checkpoint, told, passedOver >>
    BY DEF AcceptDeposit
  <1> HIDE DEF t
  <1>4. /\ \A u \in Transfers : deposit[u] # "none" => deposit'[u] # "none" /\ block'[u] = block[u]
        /\ \A u \in Transfers : deposit'[u] = "credited" => deposit[u] = "credited"
    BY <1>2, <1>3 DEF Records, TypedDeposits
  <1>5. Known' = Known /\ Known \in Nat
    BY <1>3, KnownHeight DEF Known
  <1>6. Grows
    BY <1>3, <1>4, <1>5 DEF Grows
  <1>7. next \in Passes /\ without \in Passes
    BY <1>1, <1>2 DEF Passes
  <1>8. /\ next.step = "accept" /\ next.latest = pass[s].latest /\ next.to = pass[s].to
        /\ next.skips = pass[s].skips /\ next.todo = pass[s].todo \ {t}
        /\ without.step = "accept" /\ without.latest = pass[s].latest /\ without.to = pass[s].to
        /\ without.skips = pass[s].skips \cup {t} /\ without.todo = pass[s].todo \ {t}
    BY <1>1 DEF Passes
  <1> HIDE DEF next, without
  <1>9. deposit'[t] # "none" => Sound(next, credits', deposit', block', Known', passedOver')
    BY <1>1, <1>3, <1>4, <1>5, <1>8 DEF Sound, Confirming, Crediting
  <1>10. Sound(without, credits', deposit', block', Known', passedOver')
    BY <1>1, <1>3, <1>4, <1>5, <1>8 DEF Sound, Confirming, Crediting
  <1>11. (Goes(s, next) /\ deposit'[t] # "none") \/ Goes(s, without)
    BY <1>2, <1>3 DEF Records, TypedDeposits
  <1>12. AllSound'
    BY <1>6, <1>7, <1>9, <1>10, <1>11, StaysSound DEF DepositsInv
  <1>13. CreditedOnce'
    <2> SUFFICES ASSUME NEW u \in Transfers
                 PROVE  /\ credits'[u] <= 1
                        /\ credits'[u] = 1 => Deep(block'[u], Known')
                        /\ deposit'[u] = "credited" => credits'[u] = 1
      BY DEF CreditedOnce, Known
    <2>1. /\ credits[u] <= 1 /\ (credits[u] = 1 => Deep(block[u], Known))
          /\ (deposit[u] = "credited" => credits[u] = 1) /\ (credits[u] > 0 => deposit[u] # "none")
      BY DEF DepositsInv, CreditedOnce, Known
    <2> QED  BY <1>3, <1>4, <1>5, <2>1
  <1>14. NoTransferSkipped'
    BY <1>3, <1>4 DEF DepositsInv, NoTransferSkipped
  <1>15. \A u \in Transfers : credits'[u] > 0 => deposit'[u] # "none"
    BY <1>3, <1>4 DEF DepositsInv
  <1> QED  BY <1>12, <1>13, <1>14, <1>15 DEF DepositsInv

(* A report of a transfer that no deposit records.                         *)
LEMMA ReportKeeps ==
    ASSUME TypedDeposits, TypedDeposits', DepositsInv, NEW t \in Transfers, Report(t)
    PROVE  DepositsInv'
  <1>1. PICK at \in NamedBlocks, status \in ReportedAs : Records(t, at, status)
    BY DEF Report
  <1>2. UNCHANGED << height, credits, checkpoint, pass, told, passedOver >>
    BY DEF Report
  <1>3. status # "none" /\ status # "credited"
    BY DepositsAssumption
  <1>4. /\ \A u \in Transfers : deposit[u] # "none" => deposit'[u] # "none" /\ block'[u] = block[u]
        /\ \A u \in Transfers : deposit'[u] = "credited" => deposit[u] = "credited"
    BY <1>1, <1>3 DEF Records, TypedDeposits
  <1>5. Known' = Known /\ Known \in Nat
    BY <1>2, KnownHeight DEF Known
  <1>6. AllSound'
    <2> SUFFICES ASSUME NEW r \in Scanners
                 PROVE  Sound(pass[r], credits, deposit', block', Known, passedOver)
      BY <1>2, <1>5 DEF AllSound
    <2>1. /\ pass[r] \in Passes /\ HasCopies(pass[r])
          /\ Sound(pass[r], credits, deposit, block, Known, passedOver)
      BY DEF TypedDeposits, DepositsInv, AllSound
    <2>2. pass[r].todo \subseteq Transfers /\ (pass[r].step \in Crediting => pass[r].row \in Transfers)
      BY <2>1 DEF Passes, HasCopies
    <2> QED  BY <1>4, <2>1, <2>2 DEF Sound
  <1>7. CreditedOnce'
    <2> SUFFICES ASSUME NEW u \in Transfers
                 PROVE  /\ credits'[u] <= 1
                        /\ credits'[u] = 1 => Deep(block'[u], Known')
                        /\ deposit'[u] = "credited" => credits'[u] = 1
      BY DEF CreditedOnce, Known
    <2>1. /\ credits[u] <= 1 /\ (credits[u] = 1 => Deep(block[u], Known))
          /\ (deposit[u] = "credited" => credits[u] = 1) /\ (credits[u] > 0 => deposit[u] # "none")
      BY DEF DepositsInv, CreditedOnce, Known
    <2> QED  BY <1>2, <1>4, <1>5, <2>1
  <1>8. NoTransferSkipped'
    BY <1>2, <1>4 DEF DepositsInv, NoTransferSkipped
  <1>9. \A u \in Transfers : credits'[u] > 0 => deposit'[u] # "none"
    BY <1>2, <1>4 DEF DepositsInv
  <1> QED  BY <1>6, <1>7, <1>8, <1>9 DEF DepositsInv

LEMMA PassKeeps ==
    ASSUME TypedDeposits, TypedDeposits', DepositsInv, NEW s \in Scanners, PassStep(s)
    PROVE  DepositsInv'
  <1>1. /\ pass[s] \in Passes /\ HasCopies(pass[s])
        /\ Sound(pass[s], credits, deposit, block, Known, passedOver)
    BY DEF TypedDeposits, DepositsInv, AllSound
  <1>2. ASSUME UNCHANGED << height, told >>
        PROVE  Known' = Known /\ Known \in Nat /\ height <= height' /\ told <= told'
    BY <1>2, KnownHeight DEF Known
  <1> DEFINE t == pass[s].row
  <1>3. pass[s].step \in Crediting => t \in Transfers /\ deposit[t] # "none" /\ Deep(block[t], pass[s].latest)
    BY <1>1 DEF HasCopies, Sound
  <1> HIDE DEF t
  <1>4. CASE ReadRows(s)
    <2>1. /\ Goes(s, RowsRead(pass[s]))
          /\ UNCHANGED << height, deposit, block, credits, checkpoint, told, passedOver >>
      BY <1>4 DEF ReadRows, Confirms, RowsRead
    <2>2. Sound(RowsRead(pass[s]), credits, deposit, block, Known, passedOver)
      BY <1>1, <1>4, RowsReadSound DEF ReadRows, Sound
    <2>3. Grows
      BY <1>2, <2>1 DEF Grows
    <2>4. AllSound'
      BY <1>1, <1>2, <2>1, <2>2, <2>3, RowsReadType, StaysSound DEF DepositsInv
    <2>5. NoTransferSkipped'
      BY <2>1 DEF DepositsInv, NoTransferSkipped
    <2> QED  BY <1>2, <2>1, <2>4, <2>5, OnlyPasses
  <1>5. CASE Confirm(s)
    <2>1. PICK u \in pass[s].todo, status \in Pending :
              /\ u \in Transfers
              /\ deposit' = [deposit EXCEPT ![u] = status]
              /\ \/ /\ Deep(block[u], pass[s].latest)
                    /\ Goes(s, [pass[s] EXCEPT !.step = "load", !.todo = @ \ {u}, !.row = u])
                 \/ Goes(s, [pass[s] EXCEPT !.todo = @ \ {u}])
      BY <1>5, ConfirmPicks
    <2> DEFINE load == [pass[s] EXCEPT !.step = "load", !.todo = @ \ {u}, !.row = u]
               next == [pass[s] EXCEPT !.todo = @ \ {u}]
    <2>2. pass[s].step = "confirm" /\ UNCHANGED << height, block, credits, checkpoint, told, passedOver >>
      BY <1>5 DEF Confirm
    <2>3. deposit[u] # "none" /\ status \notin {"none", "credited"}
      BY <1>1, <2>1, <2>2 DEF Sound, Confirming, Pending
    <2>4. /\ \A v \in Transfers : deposit'[v] # "none" <=> deposit[v] # "none"
          /\ \A v \in Transfers : deposit'[v] = "credited" => deposit[v] = "credited"
      BY <2>1, <2>3 DEF TypedDeposits
    <2>5. Grows
      BY <1>2, <2>2, <2>4 DEF Grows
    <2>6. load \in Passes /\ next \in Passes
      BY <1>1, <2>1, BlocksAreNats DEF Passes
    <2>7. /\ load.step = "load" /\ load.latest = pass[s].latest /\ load.to = pass[s].to
          /\ load.skips = pass[s].skips /\ load.todo \subseteq pass[s].todo /\ load.row = u
          /\ next.step = "confirm" /\ next.latest = pass[s].latest /\ next.to = pass[s].to
          /\ next.skips = pass[s].skips /\ next.todo \subseteq pass[s].todo
      BY <1>1, <2>2 DEF Passes
    <2>8. pass[s].todo \subseteq Transfers
      BY <1>1 DEF Passes
    <2> HIDE DEF load, next
    <2>9. Deep(block[u], pass[s].latest) => Sound(load, credits', deposit', block', Known', passedOver')
      BY <1>1, <1>2, <2>1, <2>2, <2>3, <2>4, <2>7, <2>8 DEF Sound, Confirming
    <2>10. Sound(next, credits', deposit', block', Known', passedOver')
      BY <1>1, <1>2, <2>2, <2>4, <2>7, <2>8 DEF Sound, Confirming, Crediting
    <2>11. (Deep(block[u], pass[s].latest) /\ Goes(s, load)) \/ Goes(s, next)
      BY <2>1 DEF load, next
    <2>12. AllSound'
      BY <2>5, <2>6, <2>9, <2>10, <2>11, StaysSound DEF DepositsInv
    <2>13. CreditedOnce' /\ NoTransferSkipped' /\ \A v \in Transfers : credits'[v] > 0 => deposit'[v] # "none"
      BY <2>2, <2>4 DEF DepositsInv, CreditedOnce, NoTransferSkipped
    <2> QED  BY <2>12, <2>13 DEF DepositsInv
  <1>6. CASE LoadDeposit(s)
    <2> DEFINE enter == [pass[s] EXCEPT !.step = "enter"]
               mark == [pass[s] EXCEPT !.step = "mark"]
               next == [pass[s] EXCEPT !.step = "confirm", !.row = 0]
    <2>1. pass[s].step = "load" /\ t \in Transfers /\ credits[t] \in Nat /\ credits[t] <= 1
      BY <1>3, <1>6 DEF LoadDeposit, Crediting, TypedDeposits, DepositsInv, CreditedOnce
    <2>2. /\ \/ Goes(s, NoPass) \/ Goes(s, enter) \/ Goes(s, next)
             \/ credits[t] = 1 /\ Goes(s, mark)
          /\ UNCHANGED << height, deposit, block, credits, checkpoint, told, passedOver >>
      <3>1. credits[t] > 0 => credits[t] = 1
        BY <2>1
      <3> QED  BY <1>6, <2>1, <3>1, LoadChooses DEF t, Credited
    <2>3. enter \in Passes /\ mark \in Passes /\ next \in Passes
      BY <1>1 DEF Passes
    <2>4. /\ Sound(enter, credits, deposit, block, Known, passedOver)
          /\ Sound(next, credits, deposit, block, Known, passedOver)
          /\ credits[t] = 1 => Sound(mark, credits, deposit, block, Known, passedOver)
      BY <1>1, <2>1 DEF Sound, Confirming, Crediting, Passes, t
    <2> HIDE DEF enter, mark, next
    <2>5. Grows
      BY <1>2, <2>2 DEF Grows
    <2>6. AllSound'
      BY <1>2, <2>2, <2>3, <2>4, <2>5, StaysSound, IdlePass, IdleIsSound DEF DepositsInv
    <2>7. NoTransferSkipped'
      BY <2>2 DEF DepositsInv, NoTransferSkipped
    <2> QED  BY <1>2, <2>2, <2>6, <2>7, OnlyPasses
  <1>7. CASE EnterCredit(s)
    <2> DEFINE p == [pass[s] EXCEPT !.step = "mark"]
    <2>1. /\ pass[s].step = "enter" /\ t \in Transfers /\ credits[t] \in Nat /\ credits[t] <= 1
          /\ deposit[t] # "none" /\ Deep(block[t], pass[s].latest)
      BY <1>3, <1>7 DEF EnterCredit, Crediting, TypedDeposits, DepositsInv, CreditedOnce
    <2>2. EntriesOf(t) = 1
      BY <2>1 DEF EntriesOf
    <2>3. /\ credits' = [credits EXCEPT ![t] = 1] /\ Goes(s, p)
          /\ UNCHANGED << height, deposit, block, checkpoint, told, passedOver >>
      BY <1>7, <2>2 DEF EnterCredit, t
    <2>4. Deep(block[t], Known)
      <3>1. block[t] \in Nat /\ pass[s].latest \in Nat /\ Known \in Nat /\ pass[s].latest <= Known
        BY <1>1, <2>1, KnownHeight, BlocksAreNats DEF TypedDeposits, Passes, Sound
      <3> QED  BY <2>1, <3>1, DeepLater
    <2>5. Grows /\ credits'[t] = 1
      BY <1>2, <2>1, <2>3 DEF Grows, TypedDeposits
    <2>6. p \in Passes /\ Sound(p, credits', deposit', block', Known', passedOver')
      BY <1>1, <1>2, <2>1, <2>3, <2>5 DEF Sound, Confirming, Crediting, Passes, t
    <2> HIDE DEF p
    <2>7. AllSound'
      BY <2>3, <2>5, <2>6, StaysSound DEF DepositsInv
    <2>8. CreditedOnce'
      <3> SUFFICES ASSUME NEW u \in Transfers
                   PROVE  /\ credits'[u] <= 1
                          /\ credits'[u] = 1 => Deep(block'[u], Known')
                          /\ deposit'[u] = "credited" => credits'[u] = 1
        BY DEF CreditedOnce, Known
      <3>1. /\ credits[u] <= 1 /\ (credits[u] = 1 => Deep(block[u], Known))
            /\ (deposit[u] = "credited" => credits[u] = 1)
        BY DEF DepositsInv, CreditedOnce, Known
      <3> QED  BY <1>2, <2>3, <2>4, <2>5, <3>1 DEF TypedDeposits
    <2>9. NoTransferSkipped' /\ \A u \in Transfers : credits'[u] > 0 => deposit'[u] # "none"
      BY <2>1, <2>3 DEF DepositsInv, NoTransferSkipped, TypedDeposits
    <2> QED  BY <2>7, <2>8, <2>9 DEF DepositsInv
  <1>8. CASE MarkCredited(s)
    <2> DEFINE p == [pass[s] EXCEPT !.step = "confirm", !.row = 0]
    <2>1. pass[s].step = "mark" /\ t \in Transfers /\ credits[t] = 1
      BY <1>1, <1>3, <1>8 DEF MarkCredited, Crediting, Sound, t
    <2>2. /\ deposit' = [deposit EXCEPT ![t] = "credited"] /\ Goes(s, p)
          /\ UNCHANGED << height, block, credits, checkpoint, told, passedOver >>
      BY <1>8 DEF MarkCredited, Marked, Credited, t
    <2>3. \A u \in Transfers : deposit[u] # "none" => deposit'[u] # "none"
      BY <2>2 DEF TypedDeposits
    <2>4. Grows
      BY <1>2, <2>2, <2>3 DEF Grows
    <2>5. p \in Passes
      BY <1>1 DEF Passes
    <2>6. Sound(p, credits', deposit', block', Known', passedOver')
      BY <1>1, <1>2, <2>1, <2>2, <2>3 DEF Sound, Confirming, Crediting, Passes
    <2> HIDE DEF p
    <2>7. AllSound'
      BY <2>2, <2>4, <2>5, <2>6, StaysSound DEF DepositsInv
    <2>8. CreditedOnce'
      BY <2>1, <2>2 DEF DepositsInv, CreditedOnce, TypedDeposits
    <2>9. NoTransferSkipped' /\ \A u \in Transfers : credits'[u] > 0 => deposit'[u] # "none"
      BY <2>2, <2>3 DEF DepositsInv, NoTransferSkipped
    <2> QED  BY <2>7, <2>8, <2>9 DEF DepositsInv
  <1>9. CASE EndPass(s)
    <2>1. /\ pass[s].step = "confirm" /\ Goes(s, NoPass) /\ passedOver' = passedOver \cup pass[s].skips
          /\ checkpoint' \in {checkpoint, pass[s].to}
          /\ UNCHANGED << height, deposit, block, credits, told >>
      BY <1>9 DEF EndPass, ScannedTo
    <2>2. Grows
      BY <1>2, <2>1 DEF Grows
    <2>3. AllSound'
      BY <1>2, <2>1, <2>2, StaysSound, IdlePass, IdleIsSound DEF DepositsInv
    <2>4. NoTransferSkipped'
      BY <1>1, <2>1 DEF Sound, DepositsInv, NoTransferSkipped
    <2> QED  BY <1>2, <2>1, <2>3, <2>4, OnlyPasses
  <1> QED  BY <1>4, <1>5, <1>6, <1>7, <1>8, <1>9, AcceptKeeps DEF PassStep

LEMMA DepositsInvHolds == DepositsSpec => []DepositsInv
  <1>1. DepositsInit => DepositsInv
    <2> SUFFICES ASSUME DepositsInit  PROVE DepositsInv
      OBVIOUS
    <2>1. Known = 0
      BY MaxOfTwo DEF DepositsInit, Known
    <2>2. AllSound
      BY <2>1, IdleIsSound DEF DepositsInit, AllSound
    <2> QED  BY <2>2, BlocksAreNats DEF DepositsInit, DepositsInv, CreditedOnce, NoTransferSkipped
  <1>2. TypedDeposits /\ TypedDeposits' /\ DepositsInv /\ [DepositsNext]_depositVars => DepositsInv'
    <2> SUFFICES ASSUME TypedDeposits, TypedDeposits', DepositsInv, [DepositsNext]_depositVars
                 PROVE  DepositsInv'
      OBVIOUS
    <2>1. CASE Grow
      <3>1. /\ height' = height + 1
            /\ UNCHANGED << deposit, block, credits, checkpoint, pass, told, passedOver >>
        BY <2>1 DEF Grow
      <3>2. height <= height' /\ told <= told'
        BY <3>1, KnownHeight
      <3>3. Known <= Known' /\ Known \in Nat /\ Known' \in Nat
        BY <3>2, KnownHeight, KnownGrows
      <3>4. AllSound'
        <4> SUFFICES ASSUME NEW r \in Scanners
                     PROVE  Sound(pass[r], credits, deposit, block, Known', passedOver)
          BY <3>1 DEF AllSound
        <4>1. pass[r].latest \in Nat /\ Sound(pass[r], credits, deposit, block, Known, passedOver)
          BY BlocksAreNats DEF TypedDeposits, Passes, DepositsInv, AllSound
        <4> QED  BY <3>3, <4>1 DEF Sound
      <3>5. NoTransferSkipped'
        BY <3>1 DEF DepositsInv, NoTransferSkipped
      <3> QED  BY <3>1, <3>2, <3>4, <3>5, OnlyPasses
    <2>2. ASSUME NEW s \in Scanners, ProcessConfirmations(s)  PROVE DepositsInv'
      <3>1. PICK latest \in NamedBlocks : Names(latest) /\ Confirms(s, [NoPass EXCEPT !.latest = latest])
        BY <2>2 DEF ProcessConfirmations
      <3> DEFINE q == [NoPass EXCEPT !.latest = latest]
      <3>2. q \in Passes /\ q.step = "idle" /\ q.latest = latest /\ q.to = NoBlock
        BY IdlePass, BlocksAreNats DEF Passes, NoPass
      <3>3. Goes(s, RowsRead(q))
        BY <3>1 DEF Confirms, RowsRead
      <3> HIDE DEF q
      <3>4. UNCHANGED << height, deposit, block, credits, checkpoint, passedOver >>
        BY <2>2 DEF ProcessConfirmations
      <3>5. height <= height' /\ told <= told' /\ latest <= told'
        BY <3>1, <3>4, KnownHeight, NamesType
      <3>6. Known <= Known' /\ Known' \in Nat /\ latest <= Known'
        BY <3>5, KnownGrows, BlocksAreNats DEF TypedDeposits
      <3>7. Sound(RowsRead(q), credits, deposit, block, Known', passedOver)
        <4>1. \A t \in Transfers : ~ (t <= q.to)
          BY <3>2, BlocksAreNats
        <4>2. q.step \in {"idle", "accept"} /\ q.step # "accept" /\ q.latest <= Known'
          BY <3>2, <3>6
        <4> QED  BY <3>2, <4>1, <4>2, RowsReadSound
      <3>8. Grows
        BY <3>4, <3>6 DEF Grows
      <3>9. AllSound'
        BY <3>2, <3>3, <3>4, <3>7, <3>8, RowsReadType, StaysSound DEF DepositsInv
      <3>10. NoTransferSkipped'
        BY <3>4 DEF DepositsInv, NoTransferSkipped
      <3> QED  BY <3>4, <3>5, <3>9, <3>10, OnlyPasses
    <2>3. ASSUME NEW s \in Scanners, PassDies(s)  PROVE DepositsInv'
      <3>1. Goes(s, NoPass) /\ UNCHANGED << height, deposit, block, credits, checkpoint, told, passedOver >>
        BY <2>3 DEF PassDies
      <3>2. Known' = Known /\ Known \in Nat /\ height <= height' /\ told <= told'
        BY <3>1, KnownHeight DEF Known
      <3>3. Grows
        BY <3>1, <3>2 DEF Grows
      <3>4. AllSound'
        BY <3>1, <3>2, <3>3, StaysSound, IdlePass, IdleIsSound DEF DepositsInv
      <3>5. NoTransferSkipped'
        BY <3>1 DEF DepositsInv, NoTransferSkipped
      <3> QED  BY <3>1, <3>2, <3>4, <3>5, OnlyPasses
    <2>4. CASE UNCHANGED depositVars
      BY <2>4 DEF depositVars, DepositsInv, CreditedOnce, NoTransferSkipped, AllSound, Known
    <2> QED  BY <2>1, <2>2, <2>3, <2>4, PollKeeps, PollAskedKeeps, ReportKeeps, PassKeeps DEF DepositsNext
  <1> QED  BY <1>1, <1>2, DepositsStayTyped, PTL DEF DepositsSpec

(* Overlapping passes, stale copies put over a credited deposit and deaths *)
(* between the entry and the mark never credit a transfer twice, before    *)
(* its row's block is buried below the chain's height or one that a caller *)
(* named, or mark one that the ledger does not have.                       *)
THEOREM TransferCreditedOnce == Spec => []CreditedOnce
  <1>1. DepositsInv => CreditedOnce
    BY DEF DepositsInv
  <1> QED  BY <1>1, DepositsInvHolds, Halves, PTL

(* However passes overlap, move the checkpoint back or die, no transfer    *)
(* below it is without a deposit but those that accept_deposit refused,    *)
(* that lay before the first window or that a caller's poll left out.      *)
THEOREM CheckpointSkipsNone == Spec => []NoTransferSkipped
  <1>1. DepositsInv => NoTransferSkipped
    BY DEF DepositsInv
  <1> QED  BY <1>1, DepositsInvHolds, Halves, PTL

-------------------------------------------------------------------------------
(* Bookings                                                                *)

LEMMA OnceAtMost ==
    ASSUME NEW n \in {0, 1}
    PROVE  Max({n, 1}) = 1
  <1>1. ASSUME NEW y \in Int, y = 1  PROVE Max({n, y}) = y
    BY <1>1, MaxOfTwo
  <1> QED  BY <1>1

LEMMA ReservedIsNat == Reserved \in Nat
  BY BookingsAssumption, FS_Subset, FS_CardinalityType DEF Reserved

-------------------------------------------------------------------------------
(* Type correctness.                                                       *)

Listings == [available : 0..UnitsTotal, active : BOOLEAN]
BookingStatus == {"none", "awaiting", "active", "released"}
PaymentStatus == {"none", "pending", "submitted", "confirmed"}

ListingCalls ==
    [step : {"take", "reserve", "order", "give back", "release"}, b : Bookings, copy : Listings]
PayCalls ==
    [step : {"debit", "activate", "mark paid"}, b : Bookings,
     booking : BookingStatus, final : {"submitted", "confirmed"}]
OtherCalls == [step : {"read listing", "settle"}, b : Bookings]
Calls == {NoCall} \cup ListingCalls \cup PayCalls \cup OtherCalls

Reports ==
    {NoReport} \cup [step : {"count", "put"}, online : BOOLEAN, available : 0..UnitsTotal]

(* All that follows the writing of a booking's row is about one that has a  *)
(* row; this is why none gets a payment order without one.                 *)
FollowsBooking(c, k) ==
    c.step \in {"order", "debit", "activate", "mark paid", "read listing", "give back", "release"} =>
        k[c.b] # "none"

TypedBookings ==
    /\ listing \in Listings
    /\ booking \in [Bookings -> BookingStatus]
    /\ payment \in [Bookings -> PaymentStatus]
    /\ debits \in [Bookings -> {0, 1}]
    /\ attested \in [Bookings -> BOOLEAN]
    /\ settlements \in [Bookings -> {0, 1}]
    /\ call \in [Threads -> Calls]
    /\ report \in Reports
    /\ \A b \in Bookings : booking[b] = "none" => payment[b] = "none"
    /\ \A h \in Threads : FollowsBooking(call[h], booking)

LEMMA InitTypes ==
    ASSUME NEW made \in SUBSET Bookings, Cardinality(made) <= UnitsTotal, BookingsFrom(made)
    PROVE  TypedBookings
  <1>1. Cardinality(made) \in Nat
    BY BookingsAssumption, FS_Subset, FS_CardinalityType
  <1>2. UnitsTotal - Cardinality(made) \in 0..UnitsTotal
    BY <1>1, BookingsAssumption
  <1>3. listing \in Listings
    BY <1>2 DEF BookingsFrom, Listings
  <1>4. call \in [Threads -> Calls] /\ report \in Reports
    BY DEF BookingsFrom, Calls, Reports
  <1>5. \A h \in Threads : call[h].step = "idle"
    BY DEF BookingsFrom, NoCall
  <1>6. \A h \in Threads : FollowsBooking(call[h], booking)
    BY <1>5 DEF FollowsBooking
  <1> QED  BY <1>3, <1>4, <1>6 DEF BookingsFrom, TypedBookings, BookingStatus, PaymentStatus

LEMMA CallKinds ==
    ASSUME NEW c \in Calls
    PROVE  /\ c.step # "idle" => c.b \in Bookings
           /\ c.step \in {"take", "reserve", "order", "give back", "release"} => c \in ListingCalls
           /\ c.step \in {"debit", "activate", "mark paid"} => c \in PayCalls
           /\ c.step \in {"read listing", "settle"} => c \in OtherCalls
  <1>1. CASE c = NoCall
    BY <1>1 DEF NoCall
  <1>2. CASE c \in ListingCalls
    BY <1>2 DEF ListingCalls
  <1>3. CASE c \in PayCalls
    BY <1>3 DEF PayCalls
  <1>4. CASE c \in OtherCalls
    BY <1>4 DEF OtherCalls
  <1> QED  BY <1>1, <1>2, <1>3, <1>4 DEF Calls

(* A step of one call: the others keep theirs, and no booking is unmade.   *)
LEMMA CallGoes ==
    ASSUME TypedBookings, NEW h \in Threads, NEW c \in Calls, call' = [call EXCEPT ![h] = c],
           FollowsBooking(c, booking'),
           \A b \in Bookings : booking[b] # "none" => booking'[b] # "none"
    PROVE  /\ call' \in [Threads -> Calls]
           /\ \A g \in Threads : FollowsBooking(call'[g], booking')
  <1>1. call' \in [Threads -> Calls]
    BY DEF TypedBookings
  <1>2. ASSUME NEW g \in Threads  PROVE FollowsBooking(call'[g], booking')
    <2>1. CASE g = h
      BY <2>1 DEF TypedBookings
    <2>2. CASE g # h
      <3>1. call'[g] = call[g] /\ call[g] \in Calls /\ FollowsBooking(call[g], booking)
        BY <2>2 DEF TypedBookings
      <3>2. call[g].step # "idle" => call[g].b \in Bookings
        BY <3>1, CallKinds
      <3> QED  BY <3>1, <3>2 DEF FollowsBooking
    <2> QED  BY <2>1, <2>2
  <1> QED  BY <1>1, <1>2

(* A submission may attest its booking; no other call does.                *)
LEMMA SubmitAttests ==
    ASSUME TypedBookings, NEW h \in Threads, NEW b \in Bookings, BeginSubmitPayment(h, b)
    PROVE  \E final \in {"submitted", "confirmed"} :
              /\ Serves(h, [step |-> IF final = "confirmed" /\ booking[b] = "awaiting"
                                     THEN "activate" ELSE "mark paid",
                            b |-> b, booking |-> booking[b], final |-> final])
              /\ \/ final = "submitted" /\ attested' = attested
                 \/ final = "confirmed" /\ attested' = [attested EXCEPT ![b] = TRUE]
  <1>1. PICK final \in {"submitted", "confirmed"} :
              /\ Serves(h, [step |-> IF final = "confirmed" /\ booking[b] = "awaiting"
                                     THEN "activate" ELSE "mark paid",
                            b |-> b, booking |-> booking[b], final |-> final])
              /\ attested' = [attested EXCEPT ![b] = @ \/ final = "confirmed"]
    BY DEF BeginSubmitPayment
  <1>2. attested \in [Bookings -> BOOLEAN] /\ attested[b] \in BOOLEAN
    BY DEF TypedBookings
  <1>3. CASE final = "submitted"
    <2>1. (attested[b] \/ final = "confirmed") = attested[b]
      BY <1>2, <1>3
    <2>2. attested' = attested
      BY <1>1, <1>2, <2>1
    <2> QED  BY <1>1, <1>3, <2>2
  <1>4. CASE final = "confirmed"
    <2>1. (attested[b] \/ final = "confirmed") = TRUE
      BY <1>2, <1>4
    <2> QED  BY <1>1, <1>4, <2>1
  <1> QED  BY <1>3, <1>4

LEMMA Attestations ==
    ASSUME TypedBookings, NEW h \in Threads, NEW b \in Bookings,
           BeginCreate(h, b) \/ BeginPay(h, b) \/ BeginSubmitPayment(h, b)
               \/ BeginRelease(h, b) \/ BeginSettle(h, b)
    PROVE  /\ attested' = attested \/ attested' = [attested EXCEPT ![b] = TRUE]
           /\ attested' \in [Bookings -> BOOLEAN]
           /\ \A a \in Bookings : attested[a] => attested'[a]
  <1>1. attested' = attested \/ attested' = [attested EXCEPT ![b] = TRUE]
    BY SubmitAttests DEF BeginCreate, BeginPay, BeginRelease, BeginSettle
  <1> QED  BY <1>1 DEF TypedBookings

LEMMA BeginTypes ==
    ASSUME TypedBookings, NEW h \in Threads, NEW b \in Bookings,
           BeginCreate(h, b) \/ BeginPay(h, b) \/ BeginSubmitPayment(h, b)
               \/ BeginRelease(h, b) \/ BeginSettle(h, b)
    PROVE  TypedBookings'
  <1>1. /\ UNCHANGED << listing, booking, payment, debits, settlements, report >>
        /\ attested' \in [Bookings -> BOOLEAN]
    BY Attestations DEF BeginCreate, BeginPay, BeginSubmitPayment, BeginRelease, BeginSettle
  <1>2. ASSUME NEW c \in Calls, Serves(h, c), FollowsBooking(c, booking)  PROVE TypedBookings'
    BY <1>1, <1>2, CallGoes DEF Serves, TypedBookings
  <1>3. CASE BeginCreate(h, b)
    <2> DEFINE c == [step |-> "take", b |-> b, copy |-> [listing EXCEPT !.available = @ - 1]]
    <2>1. [listing EXCEPT !.available = @ - 1] \in Listings
      BY <1>3, BookingsAssumption DEF BeginCreate, TypedBookings, Listings
    <2>2. c \in Calls /\ FollowsBooking(c, booking)
      BY <2>1 DEF Calls, ListingCalls, FollowsBooking
    <2>3. Serves(h, c)
      BY <1>3 DEF BeginCreate
    <2> HIDE DEF c
    <2> QED  BY <1>2, <2>2, <2>3
  <1>4. CASE BeginPay(h, b)
    <2> DEFINE c == [step |-> PaysFirst(b), b |-> b, booking |-> booking[b], final |-> "confirmed"]
    <2>1. c \in Calls /\ FollowsBooking(c, booking)
      BY <1>4 DEF BeginPay, PaysFirst, Calls, PayCalls, FollowsBooking, TypedBookings
    <2>2. Serves(h, c)
      BY <1>4 DEF BeginPay
    <2> HIDE DEF c
    <2> QED  BY <1>2, <2>1, <2>2
  <1>5. CASE BeginSubmitPayment(h, b)
    <2>1. PICK final \in {"submitted", "confirmed"} :
            Serves(h, [step |-> IF final = "confirmed" /\ booking[b] = "awaiting"
                                THEN "activate" ELSE "mark paid",
                       b |-> b, booking |-> booking[b], final |-> final])
      BY <1>5 DEF BeginSubmitPayment
    <2> DEFINE c == [step |-> IF final = "confirmed" /\ booking[b] = "awaiting"
                              THEN "activate" ELSE "mark paid",
                     b |-> b, booking |-> booking[b], final |-> final]
    <2>2. c \in Calls /\ FollowsBooking(c, booking)
      BY <1>5 DEF BeginSubmitPayment, Calls, PayCalls, FollowsBooking, TypedBookings
    <2>3. Serves(h, c)
      BY <2>1
    <2> HIDE DEF c
    <2> QED  BY <1>2, <2>2, <2>3
  <1>6. CASE BeginRelease(h, b)
    <2> DEFINE c == [step |-> "read listing", b |-> b]
    <2>1. c \in Calls /\ FollowsBooking(c, booking)
      BY <1>6 DEF BeginRelease, Calls, OtherCalls, FollowsBooking
    <2>2. Serves(h, c)
      BY <1>6 DEF BeginRelease
    <2> HIDE DEF c
    <2> QED  BY <1>2, <2>1, <2>2
  <1>7. CASE BeginSettle(h, b)
    <2> DEFINE c == [step |-> "settle", b |-> b]
    <2>1. c \in Calls /\ FollowsBooking(c, booking)
      BY DEF Calls, OtherCalls, FollowsBooking
    <2>2. Serves(h, c)
      BY <1>7 DEF BeginSettle
    <2> HIDE DEF c
    <2> QED  BY <1>2, <2>1, <2>2
  <1> QED  BY <1>3, <1>4, <1>5, <1>6, <1>7

LEMMA CallStepTypes ==
    ASSUME TypedBookings, NEW h \in Threads, CallStep(h)
    PROVE  TypedBookings'
  <1> DEFINE b == call[h].b
  <1>1. call[h] \in Calls /\ FollowsBooking(call[h], booking)
    BY DEF TypedBookings
  <1>2. call[h].step # "idle" => b \in Bookings
    BY <1>1, CallKinds
  <1>3. NoCall \in Calls /\ FollowsBooking(NoCall, booking')
    BY DEF Calls, NoCall, FollowsBooking
  <1>4. CASE PutListing(h)
    <2> DEFINE c(step) == [call[h] EXCEPT !.step = step]
    <2>1. call[h] \in ListingCalls
      BY <1>1, <1>4, CallKinds DEF PutListing, At
    <2>2. c("reserve") \in Calls /\ FollowsBooking(c("reserve"), booking)
      BY <2>1 DEF Calls, ListingCalls, FollowsBooking
    <2>3. At(h, "give back") => c("release") \in Calls /\ FollowsBooking(c("release"), booking)
      BY <1>1, <2>1 DEF Calls, ListingCalls, FollowsBooking, At
    <2>4. /\ \/ call' = [call EXCEPT ![h] = c("reserve")]
             \/ At(h, "give back") /\ call' = [call EXCEPT ![h] = c("release")]
          /\ UNCHANGED << booking, payment, debits, attested, settlements, report >>
          /\ listing' \in Listings
      BY <1>4, <2>1 DEF PutListing, GoesOn, ListingCalls
    <2> HIDE DEF c
    <2> QED  BY <2>2, <2>3, <2>4, CallGoes DEF TypedBookings
  <1>5. CASE PutBooking(h)
    <2> DEFINE c == [call[h] EXCEPT !.step = "order"]
    <2>1. call[h] \in ListingCalls /\ b \in Bookings
      BY <1>1, <1>2, <1>5, CallKinds DEF PutBooking, At
    <2>2. /\ booking' = [booking EXCEPT ![b] = "awaiting"]
          /\ call' = [call EXCEPT ![h] = c]
          /\ UNCHANGED << listing, payment, debits, attested, settlements, report >>
      BY <1>5 DEF PutBooking, GoesOn
    <2>3. c \in Calls /\ FollowsBooking(c, booking')
      BY <2>1, <2>2 DEF Calls, ListingCalls, FollowsBooking, TypedBookings
    <2> HIDE DEF c
    <2> QED  BY <2>1, <2>2, <2>3, CallGoes DEF TypedBookings, BookingStatus
  <1>6. CASE PutPaymentOrder(h)
    <2>1. b \in Bookings /\ booking[b] # "none"
      BY <1>1, <1>2, <1>6 DEF PutPaymentOrder, At, FollowsBooking
    <2> QED  BY <1>3, <1>6, <2>1, CallGoes DEF PutPaymentOrder, Returns, TypedBookings, PaymentStatus
  <1>7. CASE DebitBalance(h)
    <2> DEFINE c(step) == [call[h] EXCEPT !.step = step]
    <2>1. call[h] \in PayCalls /\ b \in Bookings /\ booking[b] # "none"
      BY <1>1, <1>2, <1>7, CallKinds DEF DebitBalance, At, FollowsBooking
    <2>2. /\ \/ call' = [call EXCEPT ![h] = c("activate")]
             \/ call' = [call EXCEPT ![h] = c("mark paid")]
          /\ debits' = [debits EXCEPT ![b] = Max({debits[b], 1})]
          /\ UNCHANGED << listing, booking, payment, attested, settlements, report >>
      BY <1>7 DEF DebitBalance, GoesOn
    <2>3. \A step \in {"activate", "mark paid"} : c(step) \in Calls /\ FollowsBooking(c(step), booking)
      BY <2>1 DEF Calls, PayCalls, FollowsBooking
    <2>4. Max({debits[b], 1}) \in {0, 1}
      BY <2>1, MaxOfTwo DEF TypedBookings
    <2> HIDE DEF c
    <2> QED  BY <2>1, <2>2, <2>3, <2>4, CallGoes DEF TypedBookings
  <1>8. CASE Activate(h)
    <2> DEFINE c == [call[h] EXCEPT !.step = "mark paid"]
    <2>1. call[h] \in PayCalls /\ b \in Bookings
      BY <1>1, <1>2, <1>8, CallKinds DEF Activate, At
    <2>2. /\ booking' = [booking EXCEPT ![b] = "active"]
          /\ call' = [call EXCEPT ![h] = c]
          /\ UNCHANGED << listing, payment, debits, attested, settlements, report >>
      BY <1>8 DEF Activate, GoesOn
    <2>3. c \in Calls /\ FollowsBooking(c, booking')
      BY <2>1, <2>2 DEF Calls, PayCalls, FollowsBooking, TypedBookings
    <2> HIDE DEF c
    <2> QED  BY <2>1, <2>2, <2>3, CallGoes DEF TypedBookings, BookingStatus
  <1>9. CASE PutPayment(h)
    <2>1. call[h] \in PayCalls /\ b \in Bookings /\ booking[b] # "none"
      BY <1>1, <1>2, <1>9, CallKinds DEF PutPayment, At, FollowsBooking
    <2>2. /\ payment' = [payment EXCEPT ![b] = call[h].final]
          /\ call' = [call EXCEPT ![h] = NoCall]
          /\ UNCHANGED << listing, booking, debits, attested, settlements, report >>
      BY <1>9 DEF PutPayment, Returns
    <2>3. call[h].final \in PaymentStatus
      BY <2>1 DEF PayCalls, PaymentStatus
    <2> QED  BY <1>3, <2>1, <2>2, <2>3, CallGoes DEF TypedBookings
  <1>10. CASE ReadListing(h)
    <2> DEFINE copy == [listing EXCEPT !.available = Min({UnitsTotal, @ + 1})]
               c == [step |-> "give back", b |-> b, copy |-> copy]
    <2>1. b \in Bookings /\ booking[b] # "none"
      BY <1>1, <1>2, <1>10 DEF ReadListing, At, FollowsBooking
    <2>2. Min({UnitsTotal, listing.available + 1}) \in 0..UnitsTotal
      <3> DEFINE n == listing.available + 1
      <3>1. UnitsTotal \in Nat /\ n \in Int /\ n >= 0
        BY BookingsAssumption DEF TypedBookings, Listings
      <3> HIDE DEF n
      <3>2. Min({UnitsTotal, n}) \in {UnitsTotal, n} /\ Min({UnitsTotal, n}) <= UnitsTotal
        BY <3>1, MinOfTwo
      <3>3. Min({UnitsTotal, n}) \in 0..UnitsTotal
        BY <3>1, <3>2
      <3> QED  BY <3>3 DEF n
    <2>3. copy \in Listings
      BY <2>2 DEF TypedBookings, Listings
    <2>4. /\ call' = [call EXCEPT ![h] = c]
          /\ UNCHANGED << listing, booking, payment, debits, attested, settlements, report >>
      BY <1>10 DEF ReadListing
    <2> HIDE DEF copy
    <2>5. c \in Calls /\ FollowsBooking(c, booking')
      BY <2>1, <2>3, <2>4 DEF Calls, ListingCalls, FollowsBooking
    <2> HIDE DEF c
    <2> QED  BY <2>4, <2>5, CallGoes DEF TypedBookings
  <1>11. CASE PutReleased(h)
    <2>1. b \in Bookings
      BY <1>2, <1>11 DEF PutReleased, At
    <2>2. /\ booking' = [booking EXCEPT ![b] = "released"]
          /\ call' = [call EXCEPT ![h] = NoCall]
          /\ UNCHANGED << listing, payment, debits, attested, settlements, report >>
      BY <1>11 DEF PutReleased, Returns
    <2> QED  BY <1>3, <2>1, <2>2, CallGoes DEF TypedBookings, BookingStatus
  <1>12. CASE PutSettlement(h)
    <2>1. b \in Bookings
      BY <1>2, <1>12 DEF PutSettlement, At
    <2>2. SettledTimes(b) \in {0, 1}
      BY <2>1, OnceAtMost DEF SettledTimes, TypedBookings
    <2>3. /\ settlements' = [settlements EXCEPT ![b] = SettledTimes(b)]
          /\ call' = [call EXCEPT ![h] = NoCall]
          /\ UNCHANGED << listing, booking, payment, debits, attested, report >>
      BY <1>12 DEF PutSettlement, Returns
    <2> QED  BY <1>3, <2>1, <2>2, <2>3, CallGoes DEF TypedBookings
  <1> QED  BY <1>4, <1>5, <1>6, <1>7, <1>8, <1>9, <1>10, <1>11, <1>12 DEF CallStep

LEMMA HeartbeatTypes ==
    ASSUME TypedBookings, Heartbeat \/ ExpireStaleWorkers
    PROVE  TypedBookings'
  <1>1. UnitsTotal \in Nat /\ listing.available \in 0..UnitsTotal
    BY BookingsAssumption DEF TypedBookings, Listings
  <1>2. CASE BeginHeartbeat
    <2>1. report' \in Reports
      BY <1>1, <1>2 DEF BeginHeartbeat, Reports
    <2> QED  BY <1>2, <2>1 DEF BeginHeartbeat, TypedBookings
  <1>3. CASE CountReserved
    <2>1. report \in [step : {"count", "put"}, online : BOOLEAN, available : 0..UnitsTotal]
      BY <1>3 DEF CountReserved, TypedBookings, Reports, NoReport
    <2>2. ASSUME NEW n \in 0..UnitsTotal  PROVE Offers(n) \in 0..UnitsTotal
      <3> DEFINE m == Min({n, UnitsTotal - Reserved})
      <3>1. n \in Int /\ UnitsTotal - Reserved \in Int /\ UnitsTotal - Reserved <= UnitsTotal
        BY <1>1, ReservedIsNat
      <3>2. m \in Int /\ m <= UnitsTotal
        BY <3>1, MinOfTwo
      <3> HIDE DEF m
      <3>3. Max({0, m}) \in {0, m} /\ Max({0, m}) >= 0
        BY <3>2, MaxOfTwo
      <3> QED  BY <1>1, <3>2, <3>3 DEF Offers, m
    <2>3. (IF report.online THEN Offers(report.available) ELSE 0) \in 0..UnitsTotal
      BY <1>1, <2>1, <2>2
    <2>4. report' \in Reports
      BY <1>3, <2>1, <2>3 DEF CountReserved, Reports
    <2> QED  BY <1>3, <2>4 DEF CountReserved, TypedBookings
  <1>4. CASE PutHeartbeat
    <2>1. report \in [step : {"count", "put"}, online : BOOLEAN, available : 0..UnitsTotal]
      BY <1>4 DEF PutHeartbeat, TypedBookings, Reports, NoReport
    <2>2. listing' \in Listings /\ report' \in Reports
      BY <1>4, <2>1 DEF PutHeartbeat, Listings, Reports
    <2> QED  BY <1>4, <2>2 DEF PutHeartbeat, TypedBookings
  <1>5. CASE ExpireStaleWorkers
    <2>1. listing' \in Listings
      BY <1>1, <1>5 DEF ExpireStaleWorkers, Listings
    <2> QED  BY <1>5, <2>1 DEF ExpireStaleWorkers, TypedBookings
  <1> QED  BY <1>2, <1>3, <1>4, <1>5 DEF Heartbeat

LEMMA BookingsStayTyped == BookingsSpec => []TypedBookings
  <1>1. BookingsBegin => TypedBookings
    BY InitTypes DEF BookingsBegin
  <1>2. TypedBookings /\ [BookingsNext]_bookingVars => TypedBookings'
    <2> SUFFICES ASSUME TypedBookings, [BookingsNext]_bookingVars  PROVE TypedBookings'
      OBVIOUS
    <2>1. CASE Crash
      <3>1. \A h \in Threads : call'[h].step = "idle"
        BY <2>1 DEF Crash, NoCall
      <3>2. call' \in [Threads -> Calls] /\ report' \in Reports
        BY <2>1 DEF Crash, Calls, Reports
      <3> QED  BY <2>1, <3>1, <3>2 DEF Crash, TypedBookings, FollowsBooking
    <2>2. CASE UNCHANGED bookingVars
      BY <2>2 DEF bookingVars, TypedBookings
    <2> QED
      BY <2>1, <2>2, BeginTypes, CallStepTypes, HeartbeatTypes DEF BookingsNext
  <1> QED  BY <1>1, <1>2, PTL DEF BookingsSpec

(* However calls cross, the listing offers between none and all of its     *)
(* units, and only what was booked has a payment order.                    *)
LEMMA BookingsTyped == BookingsSpec => []BookingsTypeOK
  <1>1. TypedBookings => BookingsTypeOK
    BY DEF TypedBookings, BookingsTypeOK, Listings, BookingStatus, PaymentStatus
  <1> QED  BY <1>1, BookingsStayTyped, PTL

(* Scanners that overlap, handlers that cross and copies put back late     *)
(* leave every record of both halves one that the code can write.          *)
THEOREM MarketTyped == Spec => []TypeOK
  BY DepositsTyped, BookingsTyped, Halves, PTL DEF TypeOK

-------------------------------------------------------------------------------
(* What is about to activate a booking, confirm its payment or settle it   *)
(* has seen it paid, and what is paid stays paid.                          *)

Paid(b, d, o) == d[b] > 0 \/ o[b]

Warranted(c, d, o) ==
    /\ c.step \in {"activate", "settle"} => Paid(c.b, d, o)
    /\ c.step = "mark paid" /\ c.final = "confirmed" => Paid(c.b, d, o)

BookingsInv == ActiveIsPaid /\ \A h \in Threads : Warranted(call[h], debits, attested)

PaidStays == \A b \in Bookings : Paid(b, debits, attested) => Paid(b, debits', attested')

LEMMA StaysWarranted ==
    ASSUME TypedBookings, BookingsInv, PaidStays, NEW h \in Threads, NEW c,
           call' = [call EXCEPT ![h] = c], Warranted(c, debits', attested')
    PROVE  \A g \in Threads : Warranted(call'[g], debits', attested')
  <1> SUFFICES ASSUME NEW g \in Threads  PROVE Warranted(call'[g], debits', attested')
    OBVIOUS
  <1>1. CASE g = h
    BY <1>1 DEF TypedBookings
  <1>2. CASE g # h
    <2>1. call'[g] = call[g] /\ call[g] \in Calls /\ Warranted(call[g], debits, attested)
      BY <1>2 DEF TypedBookings, BookingsInv
    <2>2. call[g].step # "idle" => call[g].b \in Bookings
      BY <2>1, CallKinds
    <2> QED  BY <2>1, <2>2 DEF Warranted, PaidStays
  <1> QED  BY <1>1, <1>2

LEMMA BeginKeeps ==
    ASSUME TypedBookings, BookingsInv, NEW h \in Threads, NEW b \in Bookings,
           BeginCreate(h, b) \/ BeginPay(h, b) \/ BeginSubmitPayment(h, b)
               \/ BeginRelease(h, b) \/ BeginSettle(h, b)
    PROVE  BookingsInv'
  <1>1. /\ UNCHANGED << booking, payment, debits >>
        /\ \A a \in Bookings : attested[a] => attested'[a]
    BY Attestations DEF BeginCreate, BeginPay, BeginSubmitPayment, BeginRelease, BeginSettle
  <1>2. ASSUME NEW c, Serves(h, c), Warranted(c, debits, attested')  PROVE BookingsInv'
    <2>1. PaidStays /\ call' = [call EXCEPT ![h] = c] /\ Warranted(c, debits', attested')
      BY <1>1, <1>2 DEF PaidStays, Paid, Serves
    <2>2. \A g \in Threads : Warranted(call'[g], debits', attested')
      BY <2>1, StaysWarranted
    <2> QED  BY <1>1, <2>2 DEF BookingsInv, ActiveIsPaid
  <1>3. CASE BeginCreate(h, b)
    BY <1>2, <1>3 DEF BeginCreate, Warranted
  <1>4. CASE BeginPay(h, b)
    BY <1>2, <1>4 DEF BeginPay, PaysFirst, Warranted
  <1>5. CASE BeginSubmitPayment(h, b)
    <2>1. PICK final \in {"submitted", "confirmed"} :
            /\ Serves(h, [step |-> IF final = "confirmed" /\ booking[b] = "awaiting"
                                   THEN "activate" ELSE "mark paid",
                          b |-> b, booking |-> booking[b], final |-> final])
            /\ final = "confirmed" => attested' = [attested EXCEPT ![b] = TRUE]
      BY <1>5, SubmitAttests
    <2> DEFINE c == [step |-> IF final = "confirmed" /\ booking[b] = "awaiting"
                              THEN "activate" ELSE "mark paid",
                     b |-> b, booking |-> booking[b], final |-> final]
    <2>2. final = "confirmed" => attested'[b]
      BY <2>1 DEF TypedBookings
    <2>3. Warranted(c, debits, attested') /\ Serves(h, c)
      BY <2>1, <2>2 DEF Warranted, Paid
    <2> HIDE DEF c
    <2> QED  BY <1>2, <2>3
  <1>6. CASE BeginRelease(h, b)
    BY <1>2, <1>6 DEF BeginRelease, Warranted
  <1>7. CASE BeginSettle(h, b)
    <2>1. Paid(b, debits, attested')
      BY <1>1, <1>7 DEF BeginSettle, BookingsInv, ActiveIsPaid, Paid
    <2>2. Warranted([step |-> "settle", b |-> b], debits, attested')
      BY <2>1 DEF Warranted
    <2> QED  BY <1>2, <1>7, <2>2 DEF BeginSettle
  <1> QED  BY <1>3, <1>4, <1>5, <1>6, <1>7

LEMMA CallStepKeeps ==
    ASSUME TypedBookings, BookingsInv, NEW h \in Threads, CallStep(h)
    PROVE  BookingsInv'
  <1> DEFINE b == call[h].b
  <1>1. /\ call[h] \in Calls /\ Warranted(call[h], debits, attested)
        /\ call[h].step # "idle" => b \in Bookings
    BY CallKinds DEF TypedBookings, BookingsInv
  <1>2. \A d, o : Warranted(NoCall, d, o)
    BY DEF NoCall, Warranted
  <1>3. ASSUME UNCHANGED << booking, payment, debits, attested >>,
               NEW c, call' = [call EXCEPT ![h] = c], Warranted(c, debits, attested)
        PROVE  BookingsInv'
    <2>1. PaidStays /\ Warranted(c, debits', attested')
      BY <1>3 DEF PaidStays
    <2>2. \A g \in Threads : Warranted(call'[g], debits', attested')
      BY <1>3, <2>1, StaysWarranted
    <2> QED  BY <1>3, <2>2 DEF BookingsInv, ActiveIsPaid
  <1>4. CASE PutListing(h)
    <2>1. call[h] \in ListingCalls
      BY <1>1, <1>4, CallKinds DEF PutListing, At
    <2>2. \A step \in {"reserve", "release"} :
            Warranted([call[h] EXCEPT !.step = step], debits, attested)
      BY <2>1 DEF ListingCalls, Warranted
    <2> QED  BY <1>3, <1>4, <2>2 DEF PutListing, GoesOn
  <1>5. CASE PutBooking(h)
    <2> DEFINE c == [call[h] EXCEPT !.step = "order"]
    <2>1. call[h] \in ListingCalls
      BY <1>1, <1>5, CallKinds DEF PutBooking, At
    <2>2. Warranted(c, debits', attested')
      BY <2>1 DEF ListingCalls, Warranted
    <2>3. /\ booking' = [booking EXCEPT ![b] = "awaiting"] /\ call' = [call EXCEPT ![h] = c]
          /\ UNCHANGED << payment, debits, attested >>
      BY <1>5 DEF PutBooking, GoesOn
    <2>4. PaidStays
      BY <2>3 DEF PaidStays
    <2> HIDE DEF c
    <2>5. \A g \in Threads : Warranted(call'[g], debits', attested')
      BY <2>2, <2>3, <2>4, StaysWarranted
    <2> QED  BY <2>3, <2>5 DEF BookingsInv, ActiveIsPaid, TypedBookings
  <1>6. CASE PutPaymentOrder(h)
    <2>1. /\ payment' = [payment EXCEPT ![b] = "pending"] /\ call' = [call EXCEPT ![h] = NoCall]
          /\ UNCHANGED << booking, debits, attested >>
      BY <1>6 DEF PutPaymentOrder, Returns
    <2>2. PaidStays
      BY <2>1 DEF PaidStays
    <2>3. \A g \in Threads : Warranted(call'[g], debits', attested')
      BY <1>2, <2>1, <2>2, StaysWarranted
    <2> QED  BY <2>1, <2>3 DEF BookingsInv, ActiveIsPaid, TypedBookings
  <1>7. CASE DebitBalance(h)
    <2> DEFINE c(step) == [call[h] EXCEPT !.step = step]
    <2>1. call[h] \in PayCalls /\ b \in Bookings
      BY <1>1, <1>7, CallKinds DEF DebitBalance, At
    <2>2. /\ \E step \in {"activate", "mark paid"} : call' = [call EXCEPT ![h] = c(step)]
          /\ debits' = [debits EXCEPT ![b] = Max({debits[b], 1})]
          /\ UNCHANGED << booking, payment, attested >>
      BY <1>7 DEF DebitBalance, GoesOn
    <2>3. debits'[b] = 1 /\ \A a \in Bookings : a # b => debits'[a] = debits[a]
      BY <2>1, <2>2, OnceAtMost DEF TypedBookings
    <2>4. Paid(b, debits', attested')
      BY <2>3 DEF Paid
    <2>5. PaidStays
      BY <2>2, <2>3, <2>4 DEF PaidStays, Paid
    <2>6. \A step \in {"activate", "mark paid"} : Warranted(c(step), debits', attested')
      BY <2>1, <2>4 DEF PayCalls, Warranted
    <2> HIDE DEF c
    <2>7. \A g \in Threads : Warranted(call'[g], debits', attested')
      BY <2>2, <2>5, <2>6, StaysWarranted
    <2> QED  BY <2>2, <2>5, <2>7 DEF BookingsInv, ActiveIsPaid, PaidStays, Paid
  <1>8. CASE Activate(h)
    <2> DEFINE c == [call[h] EXCEPT !.step = "mark paid"]
    <2>1. call[h] \in PayCalls /\ b \in Bookings /\ Paid(b, debits, attested)
      BY <1>1, <1>8, CallKinds DEF Activate, At, Warranted
    <2>2. /\ booking' = [booking EXCEPT ![b] = "active"] /\ call' = [call EXCEPT ![h] = c]
          /\ UNCHANGED << payment, debits, attested >>
      BY <1>8 DEF Activate, GoesOn
    <2>3. PaidStays /\ Warranted(c, debits', attested')
      BY <2>1, <2>2 DEF PaidStays, PayCalls, Warranted
    <2> HIDE DEF c
    <2>4. \A g \in Threads : Warranted(call'[g], debits', attested')
      BY <2>2, <2>3, StaysWarranted
    <2> QED  BY <2>1, <2>2, <2>4 DEF BookingsInv, ActiveIsPaid, Paid, TypedBookings
  <1>9. CASE PutPayment(h)
    <2>1. call[h] \in PayCalls /\ b \in Bookings
      BY <1>1, <1>9, CallKinds DEF PutPayment, At
    <2>2. call[h].final = "confirmed" => Paid(b, debits, attested)
      BY <1>1, <1>9 DEF PutPayment, At, Warranted
    <2>3. /\ payment' = [payment EXCEPT ![b] = call[h].final] /\ call' = [call EXCEPT ![h] = NoCall]
          /\ UNCHANGED << booking, debits, attested >>
      BY <1>9 DEF PutPayment, Returns
    <2>4. PaidStays
      BY <2>3 DEF PaidStays
    <2>5. \A g \in Threads : Warranted(call'[g], debits', attested')
      BY <1>2, <2>3, <2>4, StaysWarranted
    <2> QED  BY <2>1, <2>2, <2>3, <2>5 DEF BookingsInv, ActiveIsPaid, Paid, TypedBookings
  <1>10. CASE ReadListing(h)
    <2> DEFINE c == [step |-> "give back", b |-> b,
                     copy |-> [listing EXCEPT !.available = Min({UnitsTotal, @ + 1})]]
    <2>1. /\ UNCHANGED << booking, payment, debits, attested >>
          /\ call' = [call EXCEPT ![h] = c]
      BY <1>10 DEF ReadListing
    <2>2. Warranted(c, debits, attested)
      BY DEF Warranted
    <2> HIDE DEF c
    <2> QED  BY <1>3, <2>1, <2>2
  <1>11. CASE PutReleased(h)
    <2>1. /\ booking' = [booking EXCEPT ![b] = "released"] /\ call' = [call EXCEPT ![h] = NoCall]
          /\ UNCHANGED << payment, debits, attested >>
      BY <1>11 DEF PutReleased, Returns
    <2>2. PaidStays
      BY <2>1 DEF PaidStays
    <2>3. \A g \in Threads : Warranted(call'[g], debits', attested')
      BY <1>2, <2>1, <2>2, StaysWarranted
    <2> QED  BY <2>1, <2>3 DEF BookingsInv, ActiveIsPaid, TypedBookings
  <1>12. CASE PutSettlement(h)
    BY <1>2, <1>3, <1>12 DEF PutSettlement, Returns
  <1> QED  BY <1>4, <1>5, <1>6, <1>7, <1>8, <1>9, <1>10, <1>11, <1>12 DEF CallStep

LEMMA BookingsInvHolds == BookingsSpec => []BookingsInv
  <1>1. BookingsBegin => BookingsInv
    <2> SUFFICES ASSUME NEW made \in SUBSET Bookings, BookingsFrom(made)  PROVE BookingsInv
      BY DEF BookingsBegin
    <2>1. \A h \in Threads : call[h].step = "idle"
      BY DEF BookingsFrom, NoCall
    <2>2. \A h \in Threads : Warranted(call[h], debits, attested)
      BY <2>1 DEF Warranted
    <2> QED  BY <2>2 DEF BookingsFrom, BookingsInv, ActiveIsPaid
  <1>2. TypedBookings /\ BookingsInv /\ [BookingsNext]_bookingVars => BookingsInv'
    <2> SUFFICES ASSUME TypedBookings, BookingsInv, [BookingsNext]_bookingVars  PROVE BookingsInv'
      OBVIOUS
    <2>1. CASE Heartbeat \/ ExpireStaleWorkers
      BY <2>1 DEF Heartbeat, BeginHeartbeat, CountReserved, PutHeartbeat, ExpireStaleWorkers,
         BookingsInv, ActiveIsPaid
    <2>2. CASE Crash
      BY <2>2 DEF Crash, NoCall, BookingsInv, ActiveIsPaid, Warranted
    <2>3. CASE UNCHANGED bookingVars
      BY <2>3 DEF bookingVars, BookingsInv, ActiveIsPaid
    <2> QED  BY <2>1, <2>2, <2>3, BeginKeeps, CallStepKeeps DEF BookingsNext
  <1> QED  BY <1>1, <1>2, BookingsStayTyped, PTL DEF BookingsSpec

(* No crossing of calls, no stale copy and no crash makes a booking active *)
(* or its payment confirmed but for a debit of the balance or a caller's   *)
(* statement that the transfer is confirmed.                               *)
THEOREM BookingsArePaid == Spec => []ActiveIsPaid
  <1>1. BookingsInv => ActiveIsPaid
    BY DEF BookingsInv
  <1> QED  BY <1>1, BookingsInvHolds, Halves, PTL

-------------------------------------------------------------------------------
(* Refinement: every step is a payment, an attestation or a settlement of  *)
(* the escrow, or changes nothing there.                                   *)

LEMMA EscrowBegins == BookingsBegin => Escrow!EscrowInit
  BY DEF BookingsBegin, BookingsFrom, Escrow!EscrowInit

LEMMA EscrowSteps ==
    ASSUME TypedBookings, BookingsInv, [BookingsNext]_bookingVars
    PROVE  [Escrow!EscrowNext]_(Escrow!escrowVars)
  <1>1. ASSUME UNCHANGED << debits, attested, settlements >>
        PROVE  UNCHANGED Escrow!escrowVars
    BY <1>1 DEF Escrow!escrowVars
  <1>2. ASSUME NEW h \in Threads, DebitBalance(h)
        PROVE  [Escrow!EscrowNext]_(Escrow!escrowVars)
    <2> DEFINE b == call[h].b
    <2>1. b \in Bookings
      BY <1>2, CallKinds DEF DebitBalance, At, TypedBookings
    <2>2. /\ debits' = [debits EXCEPT ![b] = Max({debits[b], 1})]
          /\ UNCHANGED << attested, settlements >>
      BY <1>2 DEF DebitBalance
    <2>3. debits[b] \in {0, 1} /\ Max({debits[b], 1}) = 1
      BY <2>1, OnceAtMost DEF TypedBookings
    <2> HIDE DEF b
    <2>4. CASE debits[b] = 0
      BY <2>1, <2>2, <2>3, <2>4 DEF Escrow!EscrowNext, Escrow!Debit
    <2>5. CASE debits[b] = 1
      <3>1. debits' = debits
        BY <2>2, <2>3, <2>5 DEF TypedBookings
      <3> QED  BY <1>1, <2>2, <3>1
    <2> QED  BY <2>3, <2>4, <2>5
  <1>3. ASSUME NEW h \in Threads, PutSettlement(h)
        PROVE  [Escrow!EscrowNext]_(Escrow!escrowVars)
    <2> DEFINE b == call[h].b
    <2>1. b \in Bookings /\ Paid(b, debits, attested)
      BY <1>3, CallKinds DEF PutSettlement, At, TypedBookings, BookingsInv, Warranted
    <2>2. /\ settlements' = [settlements EXCEPT ![b] = Max({settlements[b], 1})]
          /\ UNCHANGED << debits, attested >>
      BY <1>3 DEF PutSettlement, SettledTimes
    <2> HIDE DEF b
    <2>3. settlements[b] \in {0, 1} /\ Max({settlements[b], 1}) = 1
      BY <2>1, OnceAtMost DEF TypedBookings
    <2>4. debits[b] = 1 \/ attested[b]
      BY <2>1 DEF Paid, TypedBookings
    <2>5. CASE settlements[b] = 0
      BY <2>1, <2>2, <2>3, <2>4, <2>5 DEF Escrow!EscrowNext, Escrow!Settle
    <2>6. CASE settlements[b] = 1
      <3>1. settlements' = settlements
        BY <2>2, <2>3, <2>6 DEF TypedBookings
      <3> QED  BY <1>1, <2>2, <3>1
    <2> QED  BY <2>3, <2>5, <2>6
  <1>4. ASSUME NEW h \in Threads, NEW b \in Bookings,
               BeginCreate(h, b) \/ BeginPay(h, b) \/ BeginSubmitPayment(h, b)
                   \/ BeginRelease(h, b) \/ BeginSettle(h, b)
        PROVE  [Escrow!EscrowNext]_(Escrow!escrowVars)
    <2>1. UNCHANGED << debits, settlements >>
      BY <1>4 DEF BeginCreate, BeginPay, BeginSubmitPayment, BeginRelease, BeginSettle
    <2>2. attested' = attested \/ attested' = [attested EXCEPT ![b] = TRUE]
      BY <1>4, Attestations
    <2> QED  BY <1>1, <2>1, <2>2 DEF Escrow!EscrowNext, Escrow!Attest
  <1>5. CASE \E h \in Threads :
               PutListing(h) \/ PutBooking(h) \/ PutPaymentOrder(h) \/ Activate(h)
                   \/ PutPayment(h) \/ ReadListing(h) \/ PutReleased(h)
    BY <1>1, <1>5 DEF PutListing, PutBooking, PutPaymentOrder, Activate, PutPayment,
       ReadListing, PutReleased
  <1>6. CASE Heartbeat \/ ExpireStaleWorkers \/ Crash \/ UNCHANGED bookingVars
    BY <1>1, <1>6 DEF Heartbeat, BeginHeartbeat, CountReserved, PutHeartbeat, ExpireStaleWorkers,
       Crash, bookingVars
  <1> QED  BY <1>2, <1>3, <1>4, <1>5, <1>6 DEF BookingsNext, CallStep

(* Whatever calls cross, are repeated or die, the requester's balance pays *)
(* a booking once, and the provider earns once, for a booking that the     *)
(* balance paid or a caller stated the confirmed transfer of.              *)
THEOREM BookingsImplementEscrow == Spec => BookingsKeepEscrow
  BY EscrowBegins, EscrowSteps, BookingsStayTyped, BookingsInvHolds, Halves, PTL
     DEF BookingsSpec, BookingsKeepEscrow, Escrow!EscrowSpec
===============================================================================
