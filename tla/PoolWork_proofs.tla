---------------------------- MODULE PoolWork_proofs ----------------------------
(***************************************************************************)
(* Proofs about PoolWork, for every set of workers, every number of tasks, *)
(* digits and crashes, and either way of cutting a task.                   *)
(***************************************************************************)
EXTENDS PoolWork, SetSums

Open == {"none", "gathering", "submitting"}
Statuses ==
    Open \cup {"submitted", "validation_pending", "accepted", "rejected", "lost", "stale", "error"}
MainnetStatus == {"none", "open", "pending", "won", "lost"}

TaskRows == [status : Statuses, done : Nat, block : BOOLEAN]
ChunkRows == [status : {"pending", "assigned", "completed"}, worker : Workers \cup {NoWorker}]
Tables == UNION { [D -> ChunkRows] : D \in SUBSET (1..TaskUnits) }
ShareRows ==
    [task : Tasks, chunk : 1..TaskUnits, worker : Workers, units : 1..TaskUnits,
     credited : BOOLEAN, created : Nat]
Submissions == {NoRequest} \cup [task : Tasks, chunk : 1..TaskUnits, path : {"late", "valid", "invalid"}]
Steps == {"begin", "commit", "reveal", "won", "blockless", "pending", "lost", "failed"}
Finalizers == [by : {"thread", "tick"}, task : Tasks, step : Steps]

Typed ==
    /\ task \in [Tasks -> TaskRows]
    /\ chunks \in [Tasks -> Tables]
    /\ shares \subseteq ShareRows /\ IsFiniteSet(shares)
    /\ flight \in [Workers -> Submissions]
    /\ finalizers \subseteq Finalizers
    /\ mainnet \in [Tasks -> MainnetStatus]
    /\ clock \in Nat
    /\ tick \in {"idle", "finalize"}

(* IsRace, Units and Completed, of a task's table of chunks.               *)
Race(m) == Cardinality(DOMAIN m) = 1 /\ HybridRace
UnitsIn(m) == IF Race(m) THEN TaskUnits ELSE 1
Done(m) == \A c \in DOMAIN m : m[c].status = "completed"

(* A task is cut when it is asked for, and leaves "gathering" complete.     *)
ChunksInv == \A t \in Tasks :
    /\ task[t].status = "none" => DOMAIN chunks[t] = {}
    /\ task[t].status # "none" =>
          DOMAIN chunks[t] = 1..TaskUnits \/ (HybridRace /\ DOMAIN chunks[t] = {1})
    /\ task[t].status # "gathering" => Done(chunks[t])

(* The chunk of a submission exists; a late one is for a race that is won.  *)
Valid(q, table) ==
    q.path # "none" =>
        /\ q.chunk \in DOMAIN table[q.task]
        /\ q.path = "late" => Race(table[q.task]) /\ table[q.task][q.chunk].status = "completed"

FlightInv == \A w \in Workers : Valid(flight[w], chunks)

(* Of the finalizers of a task one gets past the beginning, and that one    *)
(* has it to itself until it is closed.                                    *)
Sound(f, tasks, table) ==
    /\ Done(table[f.task]) /\ tasks[f.task].status # "none"
    /\ f.step # "begin" => tasks[f.task].status = "submitting"

Alone(fs) ==
    /\ \A f, g \in fs : f.task = g.task /\ f.step # "begin" /\ g.step # "begin" => f = g
    /\ \A f, g \in fs : f.by = "tick" /\ g.by = "tick" => f = g

FinalizersInv ==
    /\ \A f \in finalizers : Sound(f, task, chunks)
    /\ Alone(finalizers)
    /\ tick = "finalize" <=> \E f \in finalizers : f.by = "tick"

(* A share is for a chunk that is completed; the worker of the chunk has    *)
(* one, whole, and only in a race have others.                             *)
Earned(s, table) ==
    /\ s.chunk \in DOMAIN table[s.task]
    /\ table[s.task][s.chunk].status = "completed"
    /\ ~Race(table[s.task]) => s.units = 1

Apart(r, s, table) ==
    r.task = s.task /\ r.chunk = s.chunk /\ r # s => Race(table[r.task]) /\ r.worker # s.worker

PaidWhole(t, c, ss, table) ==
    table[t][c].status = "completed" =>
        \E s \in ss : /\ s.task = t /\ s.chunk = c /\ s.worker = table[t][c].worker
                      /\ s.units = UnitsIn(table[t])

SharesInv ==
    /\ \A s \in shares : Earned(s, chunks)
    /\ \A r, s \in shares : Apart(r, s, chunks)
    /\ \A t \in Tasks : \A c \in DOMAIN chunks[t] : PaidWhole(t, c, shares, chunks)

(* Shares arrive while their task is open and are credited when it closes.  *)
CreditInv ==
    /\ \A s \in shares : task[s.task].status \in Open => ~s.credited
    /\ \A r, s \in shares : r.task = s.task => r.credited = s.credited

WorkInv == Typed /\ ChunksInv /\ FlightInv /\ FinalizersInv /\ SharesInv /\ CreditInv

-------------------------------------------------------------------------------
(* Chunks                                                                  *)

LEMMA TableRows ==
    ASSUME NEW D \in SUBSET (1..TaskUnits), NEW m \in [D -> ChunkRows]
    PROVE  m \in Tables
  BY DEF Tables

LEMMA TableTypes ==
    ASSUME NEW m \in Tables
    PROVE  /\ DOMAIN m \subseteq 1..TaskUnits /\ m \in [DOMAIN m -> ChunkRows]
           /\ \A c \in DOMAIN m : m[c] \in ChunkRows
  <1>1. PICK D \in SUBSET (1..TaskUnits) : m \in [D -> ChunkRows]
    BY DEF Tables
  <1> QED  BY <1>1

(* Of a chunk that is completed nothing changes, whatever becomes of others.*)
ChunksFollow == \A t \in Tasks :
    /\ DOMAIN chunks'[t] = DOMAIN chunks[t]
    /\ \A c \in DOMAIN chunks[t] :
        chunks[t][c].status = "completed" => chunks'[t][c] = chunks[t][c]

LEMMA ChunkWritten ==
    ASSUME Typed, NEW t \in Tasks, NEW c \in DOMAIN chunks[t], NEW x \in ChunkRows,
           chunks' = [chunks EXCEPT ![t][c] = x]
    PROVE  /\ chunks' \in [Tasks -> Tables]
           /\ chunks'[t][c] = x
           /\ \A u \in Tasks : DOMAIN chunks'[u] = DOMAIN chunks[u]
           /\ \A u \in Tasks : \A d \in DOMAIN chunks[u] :
                 u # t \/ d # c => chunks'[u][d] = chunks[u][d]
  <1> DEFINE m == [chunks[t] EXCEPT ![c] = x]
  <1>1. chunks[t] \in Tables /\ chunks' = [chunks EXCEPT ![t] = m]
    BY DEF Typed
  <1>2. m \in [DOMAIN chunks[t] -> ChunkRows]
    BY <1>1, TableTypes
  <1>3. m \in Tables
    BY <1>1, <1>2, TableTypes, TableRows
  <1>4. DOMAIN m = DOMAIN chunks[t] /\ m[c] = x /\ \A d \in DOMAIN chunks[t] : d # c => m[d] = chunks[t][d]
    OBVIOUS
  <1> HIDE DEF m
  <1> QED  BY <1>1, <1>3, <1>4 DEF Typed

LEMMA OpenChunkWritten ==
    ASSUME Typed, NEW t \in Tasks, NEW c \in DOMAIN chunks[t], NEW x \in ChunkRows,
           chunks' = [chunks EXCEPT ![t][c] = x], chunks[t][c].status # "completed"
    PROVE  chunks' \in [Tasks -> Tables] /\ ChunksFollow
  BY ChunkWritten DEF ChunksFollow

LEMMA TableStays ==
    ASSUME ChunksFollow, NEW t \in Tasks
    PROVE  /\ Race(chunks'[t]) <=> Race(chunks[t])
           /\ UnitsIn(chunks'[t]) = UnitsIn(chunks[t])
           /\ Done(chunks[t]) => Done(chunks'[t])
  BY DEF ChunksFollow, Race, UnitsIn, Done

LEMMA SubmissionStays ==
    ASSUME ChunksFollow, NEW q \in Submissions, Valid(q, chunks)
    PROVE  Valid(q, chunks')
  <1> SUFFICES ASSUME q.path # "none"  PROVE Valid(q, chunks')
    BY DEF Valid
  <1>1. q.task \in Tasks
    BY DEF Submissions, NoRequest
  <1> QED  BY <1>1, TableStays DEF Valid, ChunksFollow

LEMMA NoRequestIsValid == \A table : Valid(NoRequest, table)
  BY DEF Valid, NoRequest

LEMMA FlightStays ==
    ASSUME WorkInv, ChunksFollow,
           \A w \in Workers : flight'[w] = flight[w] \/ flight'[w] = NoRequest
    PROVE  FlightInv'
  BY SubmissionStays, NoRequestIsValid DEF WorkInv, FlightInv, Typed

LEMMA FinalizerStays ==
    ASSUME ChunksFollow, UNCHANGED task, NEW f \in Finalizers, Sound(f, task, chunks)
    PROVE  Sound(f, task', chunks')
  <1>1. f.task \in Tasks
    BY DEF Finalizers
  <1> QED  BY <1>1, TableStays DEF Sound

LEMMA FinalizersStay ==
    ASSUME WorkInv, ChunksFollow, UNCHANGED << task, finalizers, tick >>
    PROVE  FinalizersInv'
  BY FinalizerStays DEF WorkInv, FinalizersInv, Typed

LEMMA ShareStays ==
    ASSUME ChunksFollow, NEW s \in ShareRows, Earned(s, chunks)
    PROVE  Earned(s, chunks')
  <1>1. s.task \in Tasks
    BY DEF ShareRows
  <1> QED  BY <1>1, TableStays DEF Earned, ChunksFollow

LEMMA ApartStays ==
    ASSUME ChunksFollow, NEW r \in ShareRows, NEW s \in ShareRows, Apart(r, s, chunks)
    PROVE  Apart(r, s, chunks')
  <1>1. r.task \in Tasks
    BY DEF ShareRows
  <1> QED  BY <1>1, TableStays DEF Apart

(* Where no chunk gets completed, the shares that were right are right.    *)
LEMMA SharesStay ==
    ASSUME WorkInv, ChunksFollow, UNCHANGED shares,
           \A t \in Tasks : \A c \in DOMAIN chunks[t] :
               chunks'[t][c].status = "completed" => chunks[t][c].status = "completed"
    PROVE  SharesInv'
  <1>1. \A s \in shares' : Earned(s, chunks')
    BY ShareStays DEF WorkInv, SharesInv, Typed
  <1>2. \A r, s \in shares' : Apart(r, s, chunks')
    BY ApartStays DEF WorkInv, SharesInv, Typed
  <1>3. ASSUME NEW t \in Tasks, NEW c \in DOMAIN chunks'[t]
        PROVE  PaidWhole(t, c, shares', chunks')
    <2>1. c \in DOMAIN chunks[t] /\ PaidWhole(t, c, shares, chunks)
      BY DEF ChunksFollow, WorkInv, SharesInv
    <2> QED  BY <2>1, TableStays DEF PaidWhole, ChunksFollow
  <1> QED  BY <1>1, <1>2, <1>3 DEF SharesInv

LEMMA ChunksStay ==
    ASSUME WorkInv, ChunksFollow, UNCHANGED task
    PROVE  ChunksInv'
  BY TableStays DEF WorkInv, ChunksInv, ChunksFollow

LEMMA SameChunks == UNCHANGED chunks => ChunksFollow
  BY DEF ChunksFollow

-------------------------------------------------------------------------------
(* Workers                                                                 *)

(* A step that moves chunks that are open, and ends submissions.           *)
LEMMA OpenChunksMove ==
    ASSUME WorkInv, ChunksFollow, chunks' \in [Tasks -> Tables],
           UNCHANGED << task, shares, finalizers, mainnet, clock, tick >>,
           \A t \in Tasks : \A c \in DOMAIN chunks[t] :
               chunks'[t][c].status = "completed" => chunks[t][c].status = "completed",
           flight' \in [Workers -> Submissions],
           \A w \in Workers : flight'[w] = flight[w] \/ flight'[w] = NoRequest
    PROVE  WorkInv'
  <1>1. Typed'
    BY DEF WorkInv, Typed
  <1>2. ChunksInv' /\ FlightInv' /\ FinalizersInv' /\ SharesInv'
    BY ChunksStay, FlightStays, FinalizersStay, SharesStay
  <1>3. CreditInv'
    BY DEF WorkInv, CreditInv
  <1> QED  BY <1>1, <1>2, <1>3 DEF WorkInv

LEMMA ExpireKeeps ==
    ASSUME WorkInv, ExpireStaleAssignments
    PROVE  WorkInv'
  <1>1. PICK t \in Tasks, expired \in SUBSET (1..TaskUnits) :
            /\ expired \subseteq { c \in DOMAIN chunks[t] : chunks[t][c].status = "assigned" }
            /\ chunks' = [chunks EXCEPT ![t] = [c \in DOMAIN @ |->
                   IF c \in expired THEN [status |-> "pending", worker |-> NoWorker] ELSE @[c]]]
    BY TableTypes DEF ExpireStaleAssignments, WorkInv, Typed
  <1> DEFINE m == [c \in DOMAIN chunks[t] |->
                      IF c \in expired THEN [status |-> "pending", worker |-> NoWorker] ELSE chunks[t][c]]
  <1>2. chunks[t] \in Tables /\ chunks' = [chunks EXCEPT ![t] = m]
    BY <1>1 DEF WorkInv, Typed
  <1>3. m \in [DOMAIN chunks[t] -> ChunkRows]
    BY <1>2, TableTypes DEF ChunkRows
  <1>4. m \in Tables
    BY <1>2, <1>3, TableTypes, TableRows
  <1>5. DOMAIN m = DOMAIN chunks[t] /\ \A c \in DOMAIN chunks[t] :
            /\ c \in expired => m[c].status = "pending" /\ chunks[t][c].status = "assigned"
            /\ c \notin expired => m[c] = chunks[t][c]
    BY <1>1
  <1> HIDE DEF m
  <1>6. ChunksFollow /\ chunks' \in [Tasks -> Tables]
    BY <1>2, <1>4, <1>5 DEF ChunksFollow, WorkInv, Typed
  <1>7. \A u \in Tasks : \A c \in DOMAIN chunks[u] :
            chunks'[u][c].status = "completed" => chunks[u][c].status = "completed"
    BY <1>2, <1>5 DEF WorkInv, Typed
  <1>8. UNCHANGED << task, shares, flight, finalizers, mainnet, clock, tick >>
    BY DEF ExpireStaleAssignments
  <1>9. flight' \in [Workers -> Submissions]
    BY <1>8 DEF WorkInv, Typed
  <1> QED  BY <1>6, <1>7, <1>8, <1>9, OpenChunksMove

LEMMA FirstPending ==
    ASSUME NEW S \in SUBSET (1..TaskUnits), S # {}
    PROVE  Min(S) \in S
  <1>1. S \in SUBSET Nat
    BY PoolAssumption
  <1>2. PICK n \in S : \A m \in S : n <= m
    BY <1>1, SmallestNat
  <1> QED  BY <1>2 DEF Min

LEMMA ClaimKeeps ==
    ASSUME WorkInv, NEW w \in Workers, ClaimWork(w)
    PROVE  WorkInv'
  <1> DEFINE pending(t) == { d \in DOMAIN chunks[t] : chunks[t][d].status = "pending" }
  <1>1. PICK t \in Gathering, c \in 1..TaskUnits :
            /\ c \in DOMAIN chunks[t]
            /\ \/ pending(t) # {} /\ c = Min(pending(t))
               \/ pending(t) = {} /\ chunks[t][c].status = "assigned" /\ chunks[t][c].worker # w
            /\ chunks' = [chunks EXCEPT ![t][c] = [status |-> "assigned", worker |-> w]]
    BY DEF ClaimWork
  <1>2. t \in Tasks /\ chunks[t] \in Tables /\ Typed
    BY DEF Gathering, WorkInv, Typed
  <1>3. chunks[t][c].status # "completed"
    <2>1. pending(t) \in SUBSET (1..TaskUnits)
      BY <1>2, TableTypes
    <2> QED  BY <1>1, <2>1, FirstPending
  <1>4. [status |-> "assigned", worker |-> w] \in ChunkRows
    BY DEF ChunkRows
  <1> HIDE DEF pending
  <1>5. ChunksFollow /\ chunks' \in [Tasks -> Tables]
    BY <1>1, <1>2, <1>3, <1>4, OpenChunkWritten
  <1>6. chunks'[t][c].status = "assigned" /\ \A u \in Tasks : \A d \in DOMAIN chunks[u] :
            u # t \/ d # c => chunks'[u][d] = chunks[u][d]
    BY <1>1, <1>2, <1>4, ChunkWritten
  <1>7. \A u \in Tasks : \A d \in DOMAIN chunks[u] :
            chunks'[u][d].status = "completed" => chunks[u][d].status = "completed"
    BY <1>6
  <1>8. UNCHANGED << task, shares, flight, finalizers, mainnet, clock, tick >>
    BY DEF ClaimWork
  <1>9. flight' \in [Workers -> Submissions]
    BY <1>8 DEF WorkInv, Typed
  <1> QED  BY <1>5, <1>7, <1>8, <1>9, OpenChunksMove

LEMMA AnsweredTypes ==
    ASSUME WorkInv, NEW w \in Workers, Answered(w)
    PROVE  /\ flight' \in [Workers -> Submissions]
           /\ \A v \in Workers : flight'[v] = flight[v] \/ flight'[v] = NoRequest
  BY DEF Answered, WorkInv, Typed, Submissions

LEMMA RefuseKeeps ==
    ASSUME WorkInv, NEW w \in Workers, RefuseSegment(w)
    PROVE  WorkInv'
  <1> DEFINE t == flight[w].task
             c == flight[w].chunk
             x == [status |-> "pending", worker |-> NoWorker]
  <1>1. UNCHANGED << task, shares, finalizers, mainnet, clock, tick >> /\ Answered(w)
    BY DEF RefuseSegment
  <1>2. t \in Tasks /\ c \in DOMAIN chunks[t] /\ Typed
    BY DEF RefuseSegment, WorkInv, FlightInv, Valid, Typed, Submissions, NoRequest
  <1>3. chunks' = IF chunks[t][c].status = "completed" THEN chunks ELSE [chunks EXCEPT ![t][c] = x]
    BY DEF RefuseSegment
  <1>4. x \in ChunkRows /\ x.status = "pending"
    BY DEF ChunkRows
  <1> HIDE DEF t, c, x
  <1>5. /\ ChunksFollow /\ chunks' \in [Tasks -> Tables]
        /\ \A u \in Tasks : \A d \in DOMAIN chunks[u] :
              chunks'[u][d].status = "completed" => chunks[u][d].status = "completed"
    <2>1. CASE chunks[t][c].status = "completed"
      BY <1>2, <1>3, <2>1, SameChunks DEF Typed
    <2>2. CASE chunks[t][c].status # "completed"
      <3>1. chunks' = [chunks EXCEPT ![t][c] = x]
        BY <1>3, <2>2
      <3>2. ChunksFollow /\ chunks' \in [Tasks -> Tables]
        BY <1>2, <1>4, <2>2, <3>1, OpenChunkWritten
      <3>3. chunks'[t][c] = x /\ \A u \in Tasks : \A d \in DOMAIN chunks[u] :
                u # t \/ d # c => chunks'[u][d] = chunks[u][d]
        BY <1>2, <1>4, <3>1, ChunkWritten
      <3> QED  BY <1>4, <3>2, <3>3
    <2> QED  BY <2>1, <2>2
  <1> QED  BY <1>1, <1>5, AnsweredTypes, OpenChunksMove

LEMMA BeginSubmitKeeps ==
    ASSUME WorkInv, NEW w \in Workers, BeginSubmit(w)
    PROVE  WorkInv'
  <1>1. UNCHANGED << task, chunks, shares, finalizers, mainnet, clock, tick >>
    BY DEF BeginSubmit
  <1>2. PICK t \in Tasks : \E c \in DOMAIN chunks[t] :
        \/ /\ chunks[t][c].status = "completed" /\ IsRace(t)
           /\ task[t].status \in {"gathering", "submitting"}
           /\ flight' = [flight EXCEPT ![w] = [task |-> t, chunk |-> c, path |-> "late"]]
        \/ /\ chunks[t][c].status # "completed" /\ t \in Gathering
           /\ \E path \in {"valid", "invalid"} :
                flight' = [flight EXCEPT ![w] = [task |-> t, chunk |-> c, path |-> path]]
    BY DEF BeginSubmit
  <1>3. PICK c \in DOMAIN chunks[t], path \in {"late", "valid", "invalid"} :
            /\ flight' = [flight EXCEPT ![w] = [task |-> t, chunk |-> c, path |-> path]]
            /\ path = "late" => chunks[t][c].status = "completed" /\ IsRace(t)
    BY <1>2
  <1> DEFINE q == [task |-> t, chunk |-> c, path |-> path]
  <1>4. q \in Submissions
    BY TableTypes DEF Submissions, WorkInv, Typed
  <1>5. Valid(q, chunks)
    BY <1>3 DEF Valid, IsRace, Race
  <1>6. flight' = [flight EXCEPT ![w] = q]
    BY <1>3
  <1> HIDE DEF q
  <1>7. Typed' /\ FlightInv'
    BY <1>1, <1>4, <1>5, <1>6 DEF WorkInv, Typed, FlightInv
  <1>8. ChunksInv' /\ FinalizersInv' /\ SharesInv' /\ CreditInv'
    BY <1>1 DEF WorkInv, ChunksInv, FinalizersInv, SharesInv, CreditInv
  <1> QED  BY <1>7, <1>8 DEF WorkInv

LEMMA UncreditedAdded ==
    ASSUME WorkInv, UNCHANGED task, NEW n \in ShareRows, n.credited = FALSE,
           task[n.task].status \in Open, shares' = shares \cup {n}
    PROVE  CreditInv'
  <1>1. \A s \in shares : s.credited \in BOOLEAN
    BY DEF WorkInv, Typed, ShareRows
  <1>2. \A s \in shares : s.task = n.task => s.credited = FALSE
    BY <1>1 DEF WorkInv, CreditInv
  <1>3. \A s \in shares' : task'[s.task].status \in Open => ~s.credited
    BY DEF WorkInv, CreditInv
  <1>4. ASSUME NEW r \in shares', NEW s \in shares', r.task = s.task
        PROVE  r.credited = s.credited
    BY <1>2, <1>4 DEF WorkInv, CreditInv
  <1> QED  BY <1>3, <1>4 DEF CreditInv

(* The chunk of a submission is open as long as its task is not complete.   *)
LEMMA CompleteChunkOpen ==
    ASSUME WorkInv, NEW w \in Workers, CompleteChunk(w),
           NEW t \in Tasks, t = flight[w].task, NEW c, c = flight[w].chunk,
           StillOpen(t, c)
    PROVE  WorkInv'
  <1> DEFINE x == [status |-> "completed", worker |-> w]
             n == Share(t, c, w, Units(t))
             f == [by |-> "thread", task |-> t, step |-> "begin"]
  <1>1. /\ Answered(w) /\ UNCHANGED << task, mainnet, clock, tick, crashes >>
        /\ chunks' = [chunks EXCEPT ![t][c] = x]
        /\ shares' = shares \cup {n}
        /\ finalizers' = IF (\A d \in DOMAIN chunks[t] : chunks'[t][d].status = "completed") /\ t \in Gathering
                         THEN finalizers \cup {f} ELSE finalizers
    BY DEF CompleteChunk
  <1>2. c \in DOMAIN chunks[t] /\ Typed /\ chunks[t] \in Tables /\ c \in 1..TaskUnits
    <2>1. c \in DOMAIN chunks[t] /\ Typed /\ chunks[t] \in Tables
      BY DEF CompleteChunk, WorkInv, FlightInv, Valid, Typed
    <2> QED  BY <2>1, TableTypes
  <1>3. chunks[t][c].status # "completed" /\ x \in ChunkRows /\ x.status = "completed" /\ x.worker = w
    BY DEF StillOpen, ChunkRows
  <1>4. n \in ShareRows /\ n.task = t /\ n.chunk = c /\ n.worker = w /\ n.credited = FALSE
        /\ n.units = UnitsIn(chunks[t])
    <2>1. Units(t) = UnitsIn(chunks[t]) /\ Units(t) \in 1..TaskUnits
      BY PoolAssumption DEF Units, UnitsIn, IsRace, Race
    <2>2. clock \in Nat
      BY <1>2 DEF Typed
    <2> QED  BY <1>2, <2>1, <2>2 DEF Share, ShareRows
  <1>5. f \in Finalizers /\ f.by = "thread" /\ f.task = t /\ f.step = "begin"
    BY DEF Finalizers, Steps
  <1>6. task[t].status = "gathering"
    BY <1>2, <1>3 DEF WorkInv, ChunksInv, Done
  <1> HIDE DEF x, n, f
  <1>7. ChunksFollow /\ chunks' \in [Tasks -> Tables]
    BY <1>1, <1>2, <1>3, OpenChunkWritten
  <1>8. chunks'[t][c] = x /\ \A u \in Tasks : \A d \in DOMAIN chunks[u] :
            u # t \/ d # c => chunks'[u][d] = chunks[u][d]
    <2>1. chunks' = [chunks EXCEPT ![t][c] = x] /\ c \in DOMAIN chunks[t] /\ x \in ChunkRows /\ Typed
      BY <1>1, <1>2, <1>3
    <2> QED  BY <2>1, ChunkWritten
  <1>9. Typed'
    <2>1. IsFiniteSet(shares') /\ shares' \subseteq ShareRows
      BY <1>1, <1>2, <1>4, FS_AddElement DEF Typed
    <2>2. finalizers' \subseteq Finalizers
      BY <1>1, <1>2, <1>5 DEF Typed
    <2> QED  BY <1>1, <1>2, <1>7, <2>1, <2>2, AnsweredTypes DEF Typed
  <1>10. ChunksInv' /\ FlightInv'
    BY <1>1, <1>7, ChunksStay, FlightStays, AnsweredTypes
  <1>11. FinalizersInv'
    <2>1. \A g \in finalizers : Sound(g, task', chunks')
      BY <1>1, <1>2, <1>7, FinalizerStays DEF WorkInv, FinalizersInv, Typed
    <2>2. finalizers' # finalizers => finalizers' = finalizers \cup {f} /\ Done(chunks'[t])
      BY <1>1, <1>7 DEF Done, ChunksFollow
    <2>3. Done(chunks'[t]) => Sound(f, task', chunks')
      BY <1>1, <1>5, <1>6 DEF Sound
    <2>4. Alone(finalizers')
      BY <1>5, <2>2 DEF Alone, WorkInv, FinalizersInv
    <2>5. tick' = "finalize" <=> \E g \in finalizers' : g.by = "tick"
      BY <1>1, <1>5, <2>2 DEF WorkInv, FinalizersInv
    <2> QED  BY <2>1, <2>2, <2>3, <2>4, <2>5 DEF FinalizersInv
  <1>12. SharesInv'
    <2>1. \A s \in shares : Earned(s, chunks')
      BY <1>2, <1>7, ShareStays DEF WorkInv, SharesInv, Typed
    <2>2. Earned(n, chunks')
      BY <1>2, <1>3, <1>4, <1>7, <1>8, TableStays DEF Earned, UnitsIn, ChunksFollow
    <2>3. \A s \in shares : s.task = t => s.chunk # c
      BY <1>3 DEF WorkInv, SharesInv, Earned
    <2>4. \A r, s \in shares : Apart(r, s, chunks')
      BY <1>2, <1>7, ApartStays DEF WorkInv, SharesInv, Typed
    <2>5. \A r, s \in shares' : Apart(r, s, chunks')
      BY <1>1, <1>4, <2>3, <2>4 DEF Apart
    <2>6. ASSUME NEW u \in Tasks, NEW d \in DOMAIN chunks'[u]
          PROVE  PaidWhole(u, d, shares', chunks')
      <3>1. d \in DOMAIN chunks[u] /\ PaidWhole(u, d, shares, chunks)
        BY <1>7 DEF ChunksFollow, WorkInv, SharesInv
      <3>2. UnitsIn(chunks'[u]) = UnitsIn(chunks[u])
        BY <1>7, TableStays
      <3>3. CASE u = t /\ d = c
        BY <1>1, <1>3, <1>4, <1>8, <3>2, <3>3 DEF PaidWhole
      <3>4. CASE u # t \/ d # c
        BY <1>1, <1>8, <3>1, <3>2, <3>4 DEF PaidWhole
      <3> QED  BY <3>3, <3>4
    <2> QED  BY <1>1, <2>1, <2>2, <2>5, <2>6 DEF SharesInv
  <1>13. CreditInv'
    <2>1. task[n.task].status \in Open
      BY <1>4, <1>6 DEF Open
    <2> QED  BY <1>1, <1>4, <2>1, UncreditedAdded
  <1> QED  BY <1>9, <1>10, <1>11, <1>12, <1>13 DEF WorkInv

LEMMA CompleteKeeps ==
    ASSUME WorkInv, NEW w \in Workers, CompleteChunk(w)
    PROVE  WorkInv'
  <1>1. flight[w].task \in Tasks
    BY DEF CompleteChunk, WorkInv, Typed, Submissions, NoRequest
  <1>2. CASE StillOpen(flight[w].task, flight[w].chunk)
    BY <1>1, <1>2, CompleteChunkOpen
  <1>3. CASE ~StillOpen(flight[w].task, flight[w].chunk)
    <2>1. UNCHANGED << task, chunks, shares, finalizers, mainnet, clock, tick >> /\ Answered(w)
      BY <1>3 DEF CompleteChunk
    <2>2. chunks' \in [Tasks -> Tables]
      BY <2>1 DEF WorkInv, Typed
    <2> QED  BY <2>1, <2>2, SameChunks, AnsweredTypes, OpenChunksMove
  <1> QED  BY <1>2, <1>3

LEMMA CreditLateKeeps ==
    ASSUME WorkInv, NEW w \in Workers, CreditLateShare(w)
    PROVE  WorkInv'
  <1> DEFINE t == flight[w].task
             c == flight[w].chunk
  <1>1. UNCHANGED << task, chunks, finalizers, mainnet, clock, tick, crashes >> /\ Answered(w)
    BY DEF CreditLateShare
  <1>2. /\ t \in Tasks /\ c \in DOMAIN chunks[t] /\ Typed
        /\ Race(chunks[t]) /\ chunks[t][c].status = "completed"
    BY DEF CreditLateShare, WorkInv, FlightInv, Valid, Typed, Submissions, NoRequest
  <1>3. c \in 1..TaskUnits
    BY <1>2, TableTypes DEF Typed
  <1>4. LateCreditable(t, c, w) => \E units \in 1..TaskUnits : shares' = shares \cup { Share(t, c, w, units) }
    BY DEF CreditLateShare
  <1>5. ~LateCreditable(t, c, w) => UNCHANGED shares
    BY DEF CreditLateShare
  <1> HIDE DEF t, c
  <1>6. CASE ~LateCreditable(t, c, w)
    <2>1. UNCHANGED << task, chunks, shares, finalizers, mainnet, clock, tick >>
      BY <1>1, <1>5, <1>6
    <2>2. chunks' \in [Tasks -> Tables]
      BY <1>1, <1>2 DEF Typed
    <2> QED  BY <1>1, <2>1, <2>2, SameChunks, AnsweredTypes, OpenChunksMove
  <1>7. CASE LateCreditable(t, c, w)
    <2>1. PICK units \in 1..TaskUnits : shares' = shares \cup { Share(t, c, w, units) }
      BY <1>4, <1>7
    <2> DEFINE n == Share(t, c, w, units)
    <2>2. n \in ShareRows /\ n.task = t /\ n.chunk = c /\ n.worker = w /\ n.credited = FALSE
      BY <1>2, <1>3 DEF Share, ShareRows, Typed
    <2>3. shares' = shares \cup {n}
      BY <2>1
    <2> HIDE DEF n
    <2>4. task[t].status \in Open /\ \A s \in shares : s.task = t /\ s.chunk = c => s.worker # w
      BY <1>7 DEF LateCreditable, Open
    <2>5. Typed'
      <3>1. IsFiniteSet(shares') /\ shares' \subseteq ShareRows
        BY <1>2, <2>2, <2>3, FS_AddElement DEF Typed
      <3> QED  BY <1>1, <1>2, <3>1, AnsweredTypes DEF Typed
    <2>6. ChunksInv' /\ FlightInv' /\ FinalizersInv'
      BY <1>1, SameChunks, ChunksStay, FlightStays, FinalizersStay, AnsweredTypes
    <2>7. SharesInv'
      <3>1. \A s \in shares' : Earned(s, chunks')
        BY <1>1, <1>2, <2>2, <2>3 DEF WorkInv, SharesInv, Earned
      <3>2. \A r, s \in shares' : Apart(r, s, chunks')
        BY <1>1, <1>2, <2>2, <2>3, <2>4 DEF WorkInv, SharesInv, Apart
      <3>3. \A u \in Tasks : \A d \in DOMAIN chunks'[u] : PaidWhole(u, d, shares', chunks')
        BY <1>1, <2>3 DEF WorkInv, SharesInv, PaidWhole
      <3> QED  BY <3>1, <3>2, <3>3 DEF SharesInv
    <2>8. CreditInv'
      <3>1. task[n.task].status \in Open
        BY <2>2, <2>4
      <3> QED  BY <1>1, <2>2, <2>3, <3>1, UncreditedAdded
    <2> QED  BY <2>5, <2>6, <2>7, <2>8 DEF WorkInv
  <1> QED  BY <1>6, <1>7

-------------------------------------------------------------------------------
(* The finalizers                                                          *)

LEMMA FinalizerTypes ==
    ASSUME WorkInv, NEW f \in finalizers
    PROVE  /\ f \in Finalizers /\ f.task \in Tasks /\ f.step \in Steps
           /\ Done(chunks[f.task]) /\ task[f.task].status # "none"
           /\ f.step # "begin" => task[f.task].status = "submitting"
           /\ f.by = "tick" => tick = "finalize"
  BY DEF WorkInv, Typed, Finalizers, FinalizersInv, Sound

LEMMA GoesKeeps ==
    ASSUME WorkInv, NEW f \in finalizers, NEW step \in Steps \ {"begin"}, Goes(f, step),
           \A g \in finalizers : g.task = f.task /\ g.step # "begin" => g = f
    PROVE  /\ finalizers' \subseteq Finalizers /\ Alone(finalizers')
           /\ \A g \in finalizers' :
                 (g \in finalizers /\ g # f) \/ (g.task = f.task /\ g.step = step)
           /\ tick = "finalize" <=> \E g \in finalizers' : g.by = "tick"
  <1> DEFINE n == [f EXCEPT !.step = step]
  <1>1. f \in Finalizers /\ finalizers \subseteq Finalizers /\ Alone(finalizers)
    BY DEF WorkInv, Typed, FinalizersInv
  <1>2. n \in Finalizers /\ n.task = f.task /\ n.by = f.by /\ n.step = step
    BY <1>1 DEF Finalizers
  <1>3. finalizers' = (finalizers \ {f}) \cup {n}
    BY DEF Goes
  <1> HIDE DEF n
  <1>4. Alone(finalizers')
    BY <1>1, <1>2, <1>3 DEF Alone
  <1>5. tick = "finalize" <=> \E g \in finalizers' : g.by = "tick"
    BY <1>2, <1>3 DEF WorkInv, FinalizersInv
  <1> QED  BY <1>1, <1>2, <1>3, <1>4, <1>5

LEMMA EndsKeeps ==
    ASSUME WorkInv, NEW f \in finalizers, Ends(f)
    PROVE  /\ finalizers' \subseteq Finalizers /\ Alone(finalizers')
           /\ \A g \in finalizers' : g \in finalizers /\ g # f
           /\ tick' \in {"idle", "finalize"}
           /\ tick' = "finalize" <=> \E g \in finalizers' : g.by = "tick"
  <1>1. finalizers' = finalizers \ {f} /\ tick' = IF f.by = "tick" THEN "idle" ELSE tick
    BY DEF Ends
  <1>2. finalizers \subseteq Finalizers /\ Alone(finalizers) /\ tick \in {"idle", "finalize"}
        /\ (tick = "finalize" <=> \E g \in finalizers : g.by = "tick")
    BY DEF WorkInv, Typed, FinalizersInv
  <1>3. finalizers' \subseteq Finalizers /\ Alone(finalizers') /\ tick' \in {"idle", "finalize"}
    BY <1>1, <1>2 DEF Alone
  <1>4. tick' = "finalize" <=> \E g \in finalizers' : g.by = "tick"
    BY <1>1, <1>2 DEF Alone
  <1> QED  BY <1>1, <1>3, <1>4

(* A step of a finalizer that leaves the tasks as they are.                *)
LEMMA FinalizersMove ==
    ASSUME WorkInv, UNCHANGED << task, chunks, shares, flight, clock >>,
           mainnet' \in [Tasks -> MainnetStatus], tick' \in {"idle", "finalize"},
           finalizers' \subseteq Finalizers, FinalizersInv'
    PROVE  WorkInv'
  <1>1. Typed'
    BY DEF WorkInv, Typed
  <1>2. ChunksInv' /\ FlightInv' /\ SharesInv' /\ CreditInv'
    BY DEF WorkInv, ChunksInv, FlightInv, SharesInv, CreditInv
  <1> QED  BY <1>1, <1>2 DEF WorkInv

LEMMA TickFinalizeKeeps ==
    ASSUME WorkInv, FinalizeReadyTasks
    PROVE  WorkInv'
  <1>1. UNCHANGED << task, chunks, shares, flight, mainnet, clock >> /\ tick = "idle" /\ tick' = "finalize"
    BY DEF FinalizeReadyTasks
  <1>2. PICK t \in Tasks : /\ task[t].status = "gathering" /\ Done(chunks[t])
                           /\ finalizers' = finalizers \cup { [by |-> "tick", task |-> t, step |-> "begin"] }
    BY DEF FinalizeReadyTasks, Gathering, Completed, Done
  <1> DEFINE n == [by |-> "tick", task |-> t, step |-> "begin"]
  <1>3. n \in Finalizers /\ n.by = "tick" /\ n.task = t /\ n.step = "begin" /\ finalizers' = finalizers \cup {n}
    BY <1>2 DEF Finalizers, Steps
  <1> HIDE DEF n
  <1>4. \A g \in finalizers : g.by # "tick"
    BY <1>1 DEF WorkInv, FinalizersInv
  <1>5. finalizers' \subseteq Finalizers /\ Alone(finalizers')
    BY <1>3, <1>4 DEF WorkInv, Typed, FinalizersInv, Alone
  <1>6. \A g \in finalizers' : Sound(g, task', chunks')
    BY <1>1, <1>2, <1>3 DEF WorkInv, FinalizersInv, Sound
  <1>7. FinalizersInv'
    BY <1>1, <1>3, <1>5, <1>6 DEF FinalizersInv
  <1>8. mainnet' \in [Tasks -> MainnetStatus]
    BY <1>1 DEF WorkInv, Typed
  <1> QED  BY <1>1, <1>5, <1>7, <1>8, FinalizersMove

LEMMA CommitKeeps ==
    ASSUME WorkInv, NEW f \in finalizers, Commit(f)
    PROVE  WorkInv'
  <1>1. UNCHANGED << task, chunks, shares, flight, mainnet, clock, tick >> /\ f.step = "commit"
    BY DEF Commit
  <1>2. PICK step \in {"reveal", "failed"} : Goes(f, step)
    BY DEF Commit
  <1>3. step \in Steps \ {"begin"}
    BY DEF Steps
  <1>4. \A g \in finalizers : g.task = f.task /\ g.step # "begin" => g = f
    BY <1>1 DEF WorkInv, FinalizersInv, Alone
  <1>5. /\ finalizers' \subseteq Finalizers /\ Alone(finalizers')
        /\ \A g \in finalizers' :
              (g \in finalizers /\ g # f) \/ (g.task = f.task /\ g.step = step)
        /\ tick = "finalize" <=> \E g \in finalizers' : g.by = "tick"
    BY <1>2, <1>3, <1>4, GoesKeeps
  <1>6. \A g \in finalizers' : Sound(g, task', chunks')
    BY <1>1, <1>5, FinalizerTypes DEF Sound, WorkInv, FinalizersInv
  <1>7. FinalizersInv'
    BY <1>1, <1>5, <1>6 DEF FinalizersInv
  <1>8. mainnet' \in [Tasks -> MainnetStatus] /\ tick' \in {"idle", "finalize"}
    BY <1>1 DEF WorkInv, Typed
  <1> QED  BY <1>1, <1>5, <1>7, <1>8, FinalizersMove

LEMMA RevealKeeps ==
    ASSUME WorkInv, NEW f \in finalizers, Reveal(f)
    PROVE  WorkInv'
  <1>1. UNCHANGED << task, chunks, shares, flight, clock, tick >> /\ f.step = "reveal"
    BY DEF Reveal
  <1>2. PICK step \in {"won", "blockless", "pending", "lost", "failed"} : Goes(f, step)
    BY DEF Reveal
  <1>3. step \in Steps \ {"begin"}
    BY DEF Steps
  <1>4. \A g \in finalizers : g.task = f.task /\ g.step # "begin" => g = f
    BY <1>1 DEF WorkInv, FinalizersInv, Alone
  <1>5. /\ finalizers' \subseteq Finalizers /\ Alone(finalizers')
        /\ \A g \in finalizers' :
              (g \in finalizers /\ g # f) \/ (g.task = f.task /\ g.step = step)
        /\ tick = "finalize" <=> \E g \in finalizers' : g.by = "tick"
    BY <1>2, <1>3, <1>4, GoesKeeps
  <1>6. \A g \in finalizers' : Sound(g, task', chunks')
    BY <1>1, <1>5, FinalizerTypes DEF Sound, WorkInv, FinalizersInv
  <1>7. FinalizersInv'
    BY <1>1, <1>5, <1>6 DEF FinalizersInv
  <1>8. mainnet' \in [Tasks -> MainnetStatus] /\ tick' \in {"idle", "finalize"}
    BY <1>1 DEF Reveal, WorkInv, Typed, MainnetStatus
  <1> QED  BY <1>1, <1>5, <1>7, <1>8, FinalizersMove

LEMMA BeginKeeps ==
    ASSUME WorkInv, NEW f \in finalizers, BeginFinalize(f)
    PROVE  WorkInv'
  <1>1. UNCHANGED << chunks, shares, flight, mainnet, clock >> /\ f.step = "begin"
    BY DEF BeginFinalize
  <1>2. CASE ~Takes(f)
    <2>1. Ends(f) /\ UNCHANGED task
      BY <1>2 DEF BeginFinalize
    <2>2. /\ finalizers' \subseteq Finalizers /\ Alone(finalizers')
          /\ \A g \in finalizers' : g \in finalizers /\ g # f
          /\ tick' \in {"idle", "finalize"}
          /\ tick' = "finalize" <=> \E g \in finalizers' : g.by = "tick"
      BY <2>1, EndsKeeps
    <2>3. \A g \in finalizers' : Sound(g, task', chunks')
      BY <1>1, <2>1, <2>2 DEF WorkInv, FinalizersInv
    <2>4. FinalizersInv'
      BY <2>2, <2>3 DEF FinalizersInv
    <2>5. mainnet' \in [Tasks -> MainnetStatus]
      BY <1>1 DEF WorkInv, Typed
    <2> QED  BY <1>1, <2>1, <2>2, <2>4, <2>5, FinalizersMove
  <1>3. CASE Takes(f)
    <2> DEFINE t == f.task
    <2>1. task' = [task EXCEPT ![t].status = "submitting"] /\ Goes(f, "commit") /\ UNCHANGED tick
      BY <1>3 DEF BeginFinalize
    <2>2. t \in Tasks /\ task[t].status = "gathering" /\ Done(chunks[t])
      BY <1>3, FinalizerTypes DEF Takes
    <2> HIDE DEF t
    <2>3. \A g \in finalizers : g.task = t => g.step = "begin"
      BY <2>2, FinalizerTypes
    <2>4. "commit" \in Steps \ {"begin"}
      BY DEF Steps
    <2>5. \A g \in finalizers : g.task = f.task /\ g.step # "begin" => g = f
      BY <2>3 DEF t
    <2>6. /\ finalizers' \subseteq Finalizers /\ Alone(finalizers')
          /\ \A g \in finalizers' :
                (g \in finalizers /\ g # f) \/ (g.task = f.task /\ g.step = "commit")
          /\ tick = "finalize" <=> \E g \in finalizers' : g.by = "tick"
      BY <2>1, <2>4, <2>5, GoesKeeps
    <2>7. task' \in [Tasks -> TaskRows] /\ task'[t].status = "submitting" /\
             \A u \in Tasks : u # t => task'[u] = task[u]
      <3>1. task \in [Tasks -> TaskRows] /\ task[t] \in TaskRows
        BY <2>2 DEF WorkInv, Typed
      <3>2. [task[t] EXCEPT !.status = "submitting"] \in TaskRows
        BY <3>1 DEF TaskRows, Statuses, Open
      <3> QED  BY <2>1, <2>2, <3>1, <3>2 DEF TaskRows
    <2>8. Typed'
      BY <1>1, <2>1, <2>6, <2>7 DEF WorkInv, Typed
    <2>9. ChunksInv'
      BY <1>1, <2>2, <2>7 DEF WorkInv, ChunksInv
    <2>10. FinalizersInv'
      <3>1. ASSUME NEW g \in finalizers'  PROVE Sound(g, task', chunks')
        <4>1. CASE g \in finalizers
          <5>1. g.task \in Tasks /\ Sound(g, task, chunks)
            BY <4>1, FinalizerTypes DEF WorkInv, FinalizersInv
          <5> QED  BY <1>1, <2>3, <2>7, <4>1, <5>1 DEF Sound
        <4>2. CASE g.task = t
          BY <1>1, <2>2, <2>7, <4>2 DEF Sound
        <4> QED  BY <2>6, <4>1, <4>2 DEF t
      <3> QED  BY <2>1, <2>6, <3>1 DEF FinalizersInv
    <2>11. FlightInv' /\ SharesInv'
      BY <1>1 DEF WorkInv, FlightInv, SharesInv
    <2>12. CreditInv'
      <3>1. \A s \in shares : s.task \in Tasks
        BY DEF WorkInv, Typed, ShareRows
      <3> QED  BY <1>1, <2>2, <2>7, <3>1 DEF WorkInv, CreditInv, Open
    <2> QED  BY <2>8, <2>9, <2>10, <2>11, <2>12 DEF WorkInv
  <1> QED  BY <1>2, <1>3

(* A finalizer that closes its task.                                       *)
LEMMA CloseKeeps ==
    ASSUME WorkInv, NEW f \in finalizers, f.step # "begin", Ends(f),
           NEW row \in TaskRows, row.status \notin Open, task' = [task EXCEPT ![f.task] = row],
           UNCHANGED << chunks, flight, mainnet >>, clock' = clock + 1,
           shares' \subseteq ShareRows, IsFiniteSet(shares')
    PROVE  Typed' /\ ChunksInv' /\ FinalizersInv' /\ FlightInv'
  <1> DEFINE t == f.task
  <1>1. t \in Tasks /\ Done(chunks[t]) /\ task[t].status = "submitting"
    BY FinalizerTypes
  <1>2. /\ finalizers' \subseteq Finalizers /\ Alone(finalizers')
        /\ \A g \in finalizers' : g \in finalizers /\ g # f
        /\ tick' \in {"idle", "finalize"}
        /\ tick' = "finalize" <=> \E g \in finalizers' : g.by = "tick"
    BY EndsKeeps
  <1>3. \A g \in finalizers' : g.task = t => g.step = "begin"
    BY <1>2 DEF WorkInv, FinalizersInv, Alone
  <1> HIDE DEF t
  <1>4. task' = [task EXCEPT ![t] = row]
    BY DEF t
  <1>5. task' \in [Tasks -> TaskRows] /\ task'[t] = row /\ \A u \in Tasks : u # t => task'[u] = task[u]
    BY <1>1, <1>4 DEF WorkInv, Typed
  <1>6. Typed'
    BY <1>2, <1>5 DEF WorkInv, Typed
  <1>7. row.status # "none" /\ row.status # "gathering"
    BY DEF Open
  <1>8. ChunksInv'
    BY <1>1, <1>5, <1>7 DEF WorkInv, ChunksInv
  <1>9. ASSUME NEW g \in finalizers'  PROVE Sound(g, task', chunks')
    <2>1. g.task \in Tasks /\ Sound(g, task, chunks)
      BY <1>2, FinalizerTypes DEF WorkInv, FinalizersInv
    <2> QED  BY <1>3, <1>5, <1>7, <2>1 DEF Sound
  <1>10. FinalizersInv'
    BY <1>2, <1>9 DEF FinalizersInv
  <1>11. FlightInv'
    BY DEF WorkInv, FlightInv
  <1> QED  BY <1>6, <1>8, <1>10, <1>11

(* What the recorded answer makes of a share.                              *)
Recorded(s, t, step) == IF s.task = t /\ CreditedBy(step) THEN [s EXCEPT !.credited = TRUE] ELSE s

LEMMA RecordedShare ==
    ASSUME NEW s \in ShareRows, NEW t, NEW step
    PROVE  LET r == Recorded(s, t, step)
           IN  /\ r \in ShareRows /\ r.task = s.task /\ r.chunk = s.chunk /\ r.worker = s.worker
               /\ r.units = s.units /\ r.created = s.created
               /\ r.credited = (s.credited \/ (s.task = t /\ CreditedBy(step)))
  <1> DEFINE n == [s EXCEPT !.credited = TRUE]
  <1>1. n \in ShareRows /\ n.task = s.task /\ n.chunk = s.chunk /\ n.worker = s.worker
        /\ n.units = s.units /\ n.created = s.created /\ n.credited = TRUE
    BY DEF ShareRows
  <1>2. s.credited \in BOOLEAN
    BY DEF ShareRows
  <1> HIDE DEF n
  <1>3. CASE s.task = t /\ CreditedBy(step)
    <2>1. Recorded(s, t, step) = n
      BY <1>3 DEF Recorded, n
    <2> QED  BY <1>1, <1>2, <1>3, <2>1
  <1>4. CASE ~(s.task = t /\ CreditedBy(step))
    <2>1. Recorded(s, t, step) = s
      BY <1>4 DEF Recorded
    <2> QED  BY <1>2, <1>4, <2>1
  <1> QED  BY <1>3, <1>4

LEMMA RecordedShares ==
    ASSUME Typed, NEW t, NEW step, NEW ss, ss = { Recorded(s, t, step) : s \in shares }
    PROVE  ss \subseteq ShareRows /\ IsFiniteSet(ss)
  <1>1. ss \subseteq ShareRows
    BY RecordedShare DEF Typed
  <1> DEFINE F == [s \in shares |-> Recorded(s, t, step)]
  <1>2. F \in Surjection(shares, ss)
    BY DEF Surjection
  <1>3. IsFiniteSet(shares)
    BY DEF Typed
  <1> HIDE DEF F
  <1> QED  BY <1>1, <1>2, <1>3, FS_Surjection

LEMMA RecordKeeps ==
    ASSUME WorkInv, NEW f \in finalizers, Record(f)
    PROVE  WorkInv'
  <1> DEFINE t == f.task
             row == [status |-> StatusOf(f.step), done |-> clock + 1, block |-> f.step = "won"]
  <1>1. /\ f.step \in {"won", "blockless", "pending", "lost"} /\ Ends(f) /\ clock' = clock + 1
        /\ UNCHANGED << chunks, flight, mainnet, crashes >> /\ f.step # "begin"
    BY DEF Record
  <1>2. t \in Tasks /\ task[t].status = "submitting"
    BY <1>1, FinalizerTypes
  <1>3. row \in TaskRows /\ row.status \notin Open
    BY <1>1 DEF WorkInv, Typed, TaskRows, Statuses, Open, StatusOf
  <1>4. task' = [task EXCEPT ![f.task] = row]
    BY DEF Record
  <1>5. shares' = { Recorded(s, t, f.step) : s \in shares }
    BY DEF Record, Recorded
  <1> HIDE DEF row
  <1>6. shares' \subseteq ShareRows /\ IsFiniteSet(shares')
    BY <1>5, RecordedShares DEF WorkInv
  <1>7. Typed' /\ ChunksInv' /\ FinalizersInv' /\ FlightInv'
    BY <1>1, <1>3, <1>4, <1>6, CloseKeeps
  <1>8. task'[t] = row /\ \A u \in Tasks : u # t => task'[u] = task[u]
    BY <1>2, <1>4 DEF WorkInv, Typed
  <1> HIDE DEF t
  <1>9. ASSUME NEW r \in shares'
        PROVE  \E s \in shares : /\ s \in ShareRows /\ r = Recorded(s, t, f.step)
                                 /\ r.task = s.task /\ r.chunk = s.chunk /\ r.worker = s.worker /\ r.units = s.units
                                 /\ r.credited = (s.credited \/ (s.task = t /\ CreditedBy(f.step)))
    <2>1. PICK s \in shares : r = Recorded(s, t, f.step)
      BY <1>5
    <2>2. s \in ShareRows
      BY DEF WorkInv, Typed
    <2> QED  BY <2>1, <2>2, RecordedShare
  <1>10. SharesInv'
    <2>1. ASSUME NEW r \in shares'  PROVE Earned(r, chunks')
      BY <1>1, <1>9 DEF WorkInv, SharesInv, Earned
    <2>2. ASSUME NEW r \in shares', NEW q \in shares'  PROVE Apart(r, q, chunks')
      <3>1. PICK s \in shares : r = Recorded(s, t, f.step) /\ r.task = s.task /\ r.chunk = s.chunk /\ r.worker = s.worker
        BY <1>9
      <3>2. PICK u \in shares : q = Recorded(u, t, f.step) /\ q.task = u.task /\ q.chunk = u.chunk /\ q.worker = u.worker
        BY <1>9
      <3>3. Apart(s, u, chunks)
        BY DEF WorkInv, SharesInv
      <3> QED  BY <1>1, <3>1, <3>2, <3>3 DEF Apart
    <2>3. ASSUME NEW u \in Tasks, NEW c \in DOMAIN chunks'[u]
          PROVE  PaidWhole(u, c, shares', chunks')
      <3> SUFFICES ASSUME chunks[u][c].status = "completed"
                   PROVE  \E r \in shares' : /\ r.task = u /\ r.chunk = c /\ r.worker = chunks[u][c].worker
                                             /\ r.units = UnitsIn(chunks[u])
        BY <1>1 DEF PaidWhole
      <3>1. PaidWhole(u, c, shares, chunks)
        BY <1>1 DEF WorkInv, SharesInv
      <3>2. PICK s \in shares : /\ s.task = u /\ s.chunk = c /\ s.worker = chunks[u][c].worker
                                /\ s.units = UnitsIn(chunks[u])
        BY <3>1 DEF PaidWhole
      <3>3. s \in ShareRows /\ Recorded(s, t, f.step) \in shares'
        BY <1>5 DEF WorkInv, Typed
      <3> QED  BY <3>2, <3>3, RecordedShare
    <2> QED  BY <2>1, <2>2, <2>3 DEF SharesInv
  <1>11. CreditInv'
    <2>1. ASSUME NEW r \in shares', task'[r.task].status \in Open  PROVE ~r.credited
      <3>1. PICK s \in shares : /\ s \in ShareRows /\ r.task = s.task
                                /\ r.credited = (s.credited \/ (s.task = t /\ CreditedBy(f.step)))
        BY <1>9
      <3>2. s.task \in Tasks
        BY <3>1 DEF ShareRows
      <3>3. s.task # t
        BY <1>3, <1>8, <2>1, <3>1
      <3> QED  BY <1>8, <2>1, <3>1, <3>2, <3>3 DEF WorkInv, CreditInv
    <2>2. ASSUME NEW r \in shares', NEW q \in shares', r.task = q.task  PROVE r.credited = q.credited
      <3>1. PICK s \in shares : r.task = s.task /\ r.credited = (s.credited \/ (s.task = t /\ CreditedBy(f.step)))
        BY <1>9
      <3>2. PICK u \in shares : q.task = u.task /\ q.credited = (u.credited \/ (u.task = t /\ CreditedBy(f.step)))
        BY <1>9
      <3>3. s.credited = u.credited
        BY <2>2, <3>1, <3>2 DEF WorkInv, CreditInv
      <3> QED  BY <2>2, <3>1, <3>2, <3>3
    <2> QED  BY <2>1, <2>2 DEF CreditInv
  <1> QED  BY <1>7, <1>10, <1>11 DEF WorkInv

LEMMA RowWritten ==
    ASSUME NEW x \in TaskRows, NEW status, NEW done
    PROVE  [[x EXCEPT !.status = status] EXCEPT !.done = done]
               = [status |-> status, done |-> done, block |-> x.block]
  <1>1. x \in [status : Statuses, done : Nat, block : BOOLEAN]
    BY DEF TaskRows
  <1>2. [x EXCEPT !.status = status] = [status |-> status, done |-> x.done, block |-> x.block]
    BY <1>1
  <1> DEFINE y == [status |-> status, done |-> x.done, block |-> x.block]
  <1>3. y \in [status : {status}, done : {x.done}, block : {x.block}]
    OBVIOUS
  <1>4. y.status = status /\ y.block = x.block
    OBVIOUS
  <1> HIDE DEF y
  <1>5. [y EXCEPT !.done = done] = [status |-> status, done |-> done, block |-> x.block]
    BY <1>3, <1>4
  <1> QED  BY <1>2, <1>5 DEF y

LEMMA FailKeeps ==
    ASSUME WorkInv, NEW f \in finalizers, FailTask(f)
    PROVE  WorkInv'
  <1> DEFINE t == f.task
  <1>1. /\ f.step # "begin" /\ Ends(f) /\ clock' = clock + 1
        /\ UNCHANGED << chunks, shares, flight, mainnet >>
    BY DEF FailTask
  <1>2. t \in Tasks /\ task[t].status = "submitting" /\ task[t] \in TaskRows /\ task \in [Tasks -> TaskRows]
    BY <1>1, FinalizerTypes DEF WorkInv, Typed
  <1>3. PICK status \in {"error", "lost"} :
            task' = [task EXCEPT ![f.task].status = status, ![f.task].done = clock']
    BY DEF FailTask
  <1> DEFINE row == [status |-> status, done |-> clock + 1, block |-> task[t].block]
  <1>4. row \in TaskRows /\ row.status = status
    BY <1>2 DEF WorkInv, Typed, TaskRows, Statuses
  <1>5. task' = [task EXCEPT ![f.task] = row]
    <2>1. [[task[t] EXCEPT !.status = status] EXCEPT !.done = clock + 1] = row
      BY <1>2, RowWritten
    <2>2. task' = [task EXCEPT ![t] = [[task[t] EXCEPT !.status = status] EXCEPT !.done = clock + 1]]
      BY <1>1, <1>2, <1>3
    <2> QED  BY <2>1, <2>2
  <1> HIDE DEF row
  <1>6. row.status \notin Open
    BY <1>4 DEF Open
  <1>7. shares' \subseteq ShareRows /\ IsFiniteSet(shares')
    BY <1>1 DEF WorkInv, Typed
  <1>8. Typed' /\ ChunksInv' /\ FinalizersInv' /\ FlightInv'
    BY <1>1, <1>4, <1>5, <1>6, <1>7, CloseKeeps
  <1>9. SharesInv'
    BY <1>1 DEF WorkInv, SharesInv
  <1>10. CreditInv'
    <2>1. \A s \in shares : s.task \in Tasks
      BY DEF WorkInv, Typed, ShareRows
    <2>2. task'[t] = row /\ \A u \in Tasks : u # t => task'[u] = task[u]
      BY <1>2, <1>5
    <2> QED  BY <1>1, <1>6, <2>1, <2>2 DEF WorkInv, CreditInv
  <1> QED  BY <1>8, <1>9, <1>10 DEF WorkInv

-------------------------------------------------------------------------------
(* The tick thread, the node and a restart                                 *)

LEMMA SettleKeeps ==
    ASSUME WorkInv, NEW t \in Unsettled, NEW status \in Statuses \ Open, Settle(t, status)
    PROVE  WorkInv'
  <1> DEFINE row == [status |-> status, done |-> task[t].done, block |-> status = "accepted"]
  <1>1. UNCHANGED << chunks, shares, flight, finalizers, mainnet, clock, tick >>
    BY DEF Settle
  <1>2. t \in Tasks /\ task[t].status \in {"submitted", "validation_pending"} /\ task[t] \in TaskRows
    BY DEF Unsettled, WorkInv, Typed
  <1>3. row \in TaskRows /\ row.status = status
    BY <1>2 DEF TaskRows
  <1>4. task' = [task EXCEPT ![t] = row]
    BY DEF Settle, SettledAt
  <1> HIDE DEF row
  <1>5. task' \in [Tasks -> TaskRows] /\ task'[t] = row /\ \A u \in Tasks : u # t => task'[u] = task[u]
    BY <1>2, <1>3, <1>4 DEF WorkInv, Typed
  <1>6. Typed'
    BY <1>1, <1>5 DEF WorkInv, Typed
  <1>7. row.status # "none" /\ row.status # "gathering" /\ row.status \notin Open
    BY <1>3 DEF Open
  <1>8. ChunksInv'
    BY <1>1, <1>2, <1>5, <1>7 DEF WorkInv, ChunksInv
  <1>9. ASSUME NEW g \in finalizers  PROVE Sound(g, task', chunks')
    <2>1. g.task \in Tasks /\ Sound(g, task, chunks)
      BY FinalizerTypes DEF WorkInv, FinalizersInv
    <2> QED  BY <1>1, <1>2, <1>5, <1>7, <2>1 DEF Sound
  <1>10. FinalizersInv'
    BY <1>1, <1>9 DEF WorkInv, FinalizersInv
  <1>11. FlightInv' /\ SharesInv'
    BY <1>1 DEF WorkInv, FlightInv, SharesInv
  <1>12. CreditInv'
    <2>1. \A s \in shares : s.task \in Tasks
      BY DEF WorkInv, Typed, ShareRows
    <2> QED  BY <1>1, <1>5, <1>7, <2>1 DEF WorkInv, CreditInv
  <1> QED  BY <1>6, <1>8, <1>10, <1>11, <1>12 DEF WorkInv

LEMMA ReconcileSettles ==
    ASSUME ReconcileWonBlocks \/ ReconcileTaskStatuses
    PROVE  \E t \in Unsettled, status \in Statuses \ Open : Settle(t, status)
  <1>1. {"accepted", "lost", "stale", "validation_pending"} \subseteq Statuses \ Open
    BY DEF Statuses, Open
  <1> QED  BY <1>1 DEF ReconcileWonBlocks, ReconcileTaskStatuses

LEMMA EnsureKeeps ==
    ASSUME WorkInv, EnsureActiveTask
    PROVE  WorkInv'
  <1>1. UNCHANGED << shares, flight, finalizers, clock, tick >>
    BY DEF EnsureActiveTask
  <1>2. PICK t \in Tasks, active \in 1..Cardinality(Workers) :
            /\ task[t].status = "none"
            /\ task' = [task EXCEPT ![t].status = "gathering"]
            /\ mainnet' = [mainnet EXCEPT ![t] = "open"]
            /\ chunks' = [chunks EXCEPT ![t] =
                            [c \in Cut(active) |-> [status |-> "pending", worker |-> NoWorker]]]
    BY DEF EnsureActiveTask
  <1> DEFINE m == [c \in Cut(active) |-> [status |-> "pending", worker |-> NoWorker]]
  <1>3. Cut(active) \in SUBSET (1..TaskUnits) /\ DOMAIN m = Cut(active)
        /\ (Cut(active) = 1..TaskUnits \/ (HybridRace /\ Cut(active) = {1}))
    BY PoolAssumption DEF Cut
  <1>4. m \in [Cut(active) -> ChunkRows]
    BY DEF ChunkRows
  <1>5. m \in Tables
    BY <1>3, <1>4, TableRows
  <1>6. chunks' = [chunks EXCEPT ![t] = m]
    BY <1>2
  <1> HIDE DEF m
  <1>7. task \in [Tasks -> TaskRows] /\ chunks \in [Tasks -> Tables] /\ task[t] \in TaskRows
    BY DEF WorkInv, Typed
  <1>8. task' \in [Tasks -> TaskRows] /\ task'[t].status = "gathering" /\ \A u \in Tasks : u # t => task'[u] = task[u]
    <2>1. [task[t] EXCEPT !.status = "gathering"] \in TaskRows
      BY <1>7 DEF TaskRows, Statuses, Open
    <2> QED  BY <1>2, <1>7, <2>1 DEF TaskRows
  <1>9. chunks' \in [Tasks -> Tables] /\ chunks'[t] = m /\ \A u \in Tasks : u # t => chunks'[u] = chunks[u]
    BY <1>5, <1>6, <1>7
  <1>10. DOMAIN chunks[t] = {}
    BY <1>2 DEF WorkInv, ChunksInv
  <1>11. Typed'
    <2>1. mainnet' \in [Tasks -> MainnetStatus]
      BY <1>2 DEF WorkInv, Typed, MainnetStatus
    <2> QED  BY <1>1, <1>8, <1>9, <2>1 DEF WorkInv, Typed
  <1>12. ChunksInv'
    BY <1>3, <1>8, <1>9 DEF WorkInv, ChunksInv
  <1>13. FlightInv'
    <2>1. ASSUME NEW w \in Workers, flight[w].path # "none"
          PROVE  flight[w].task \in Tasks /\ flight[w].task # t
      BY <1>10, <2>1 DEF WorkInv, FlightInv, Valid, Typed, Submissions, NoRequest
    <2> QED  BY <1>1, <1>9, <2>1 DEF WorkInv, FlightInv, Valid
  <1>14. FinalizersInv'
    <2>1. ASSUME NEW g \in finalizers  PROVE Sound(g, task', chunks')
      <3>1. g.task \in Tasks /\ Sound(g, task, chunks)
        BY FinalizerTypes DEF WorkInv, FinalizersInv
      <3>2. g.task # t
        BY <1>2, <3>1 DEF Sound
      <3> QED  BY <1>8, <1>9, <3>1, <3>2 DEF Sound
    <2> QED  BY <1>1, <2>1 DEF WorkInv, FinalizersInv
  <1>15. \A s \in shares : s.task \in Tasks /\ s.task # t
    BY <1>10 DEF WorkInv, Typed, ShareRows, SharesInv, Earned
  <1>16. SharesInv'
    <2>1. \A s \in shares : Earned(s, chunks')
      BY <1>9, <1>15 DEF WorkInv, SharesInv, Earned
    <2>2. \A r, s \in shares : Apart(r, s, chunks')
      BY <1>9, <1>15 DEF WorkInv, SharesInv, Apart
    <2>3. \A c \in DOMAIN m : m[c].status # "completed"
      BY DEF m
    <2>4. \A u \in Tasks : \A c \in DOMAIN chunks'[u] : PaidWhole(u, c, shares, chunks')
      BY <1>9, <2>3 DEF WorkInv, SharesInv, PaidWhole
    <2> QED  BY <1>1, <2>1, <2>2, <2>4 DEF SharesInv
  <1>17. CreditInv'
    BY <1>1, <1>8, <1>15 DEF WorkInv, CreditInv
  <1> QED  BY <1>11, <1>12, <1>13, <1>14, <1>16, <1>17 DEF WorkInv

LEMMA DecideKeeps ==
    ASSUME WorkInv, NEW t \in Tasks, MainnetDecides(t)
    PROVE  WorkInv'
  <1>1. UNCHANGED << task, chunks, shares, flight, finalizers, clock, tick >>
    BY DEF MainnetDecides
  <1>2. mainnet' \in [Tasks -> MainnetStatus]
    BY DEF MainnetDecides, WorkInv, Typed, MainnetStatus
  <1>3. finalizers' \subseteq Finalizers /\ FinalizersInv' /\ tick' \in {"idle", "finalize"}
    BY <1>1 DEF WorkInv, Typed, FinalizersInv
  <1> QED  BY <1>1, <1>2, <1>3, FinalizersMove

LEMMA CrashKeeps ==
    ASSUME WorkInv, Crash
    PROVE  WorkInv'
  <1>1. /\ UNCHANGED << task, chunks, shares, mainnet, clock >>
        /\ flight' = [w \in Workers |-> NoRequest] /\ finalizers' = {} /\ tick' = "idle"
    BY DEF Crash
  <1>2. Typed'
    BY <1>1 DEF WorkInv, Typed, Submissions
  <1>3. FlightInv'
    BY <1>1, NoRequestIsValid DEF FlightInv
  <1>4. FinalizersInv'
    BY <1>1 DEF FinalizersInv, Alone
  <1>5. ChunksInv' /\ SharesInv' /\ CreditInv'
    BY <1>1 DEF WorkInv, ChunksInv, SharesInv, CreditInv
  <1> QED  BY <1>2, <1>3, <1>4, <1>5 DEF WorkInv

LEMMA InitWorks ==
    ASSUME Init
    PROVE  WorkInv
  <1>1. Typed
    <2>1. << >> \in Tables
      <3>1. << >> \in [{} -> ChunkRows] /\ {} \in SUBSET (1..TaskUnits)
        OBVIOUS
      <3> QED  BY <3>1 DEF Tables
    <2>2. Unasked \in TaskRows
      BY DEF Unasked, TaskRows, Statuses, Open
    <2> QED  BY <2>1, <2>2, FS_EmptySet DEF Init, Typed, Submissions, MainnetStatus
  <1>2. ChunksInv
    BY DEF Init, ChunksInv, Unasked, Done
  <1>3. FlightInv
    BY NoRequestIsValid DEF Init, FlightInv
  <1>4. FinalizersInv
    BY DEF Init, FinalizersInv, Alone
  <1>5. SharesInv
    BY DEF Init, SharesInv, PaidWhole
  <1>6. CreditInv
    BY DEF Init, CreditInv
  <1> QED  BY <1>1, <1>2, <1>3, <1>4, <1>5, <1>6 DEF WorkInv

LEMMA StutterKeeps ==
    ASSUME WorkInv, UNCHANGED vars
    PROVE  WorkInv'
  BY DEF vars, WorkInv, Typed, ChunksInv, FlightInv, FinalizersInv, SharesInv, CreditInv

LEMMA NextKeeps ==
    ASSUME WorkInv, [Next]_vars
    PROVE  WorkInv'
  <1>1. CASE EnsureActiveTask
    BY <1>1, EnsureKeeps
  <1>2. CASE ExpireStaleAssignments
    BY <1>2, ExpireKeeps
  <1>3. ASSUME NEW w \in Workers,
               ClaimWork(w) \/ BeginSubmit(w) \/ RefuseSegment(w) \/ CompleteChunk(w) \/ CreditLateShare(w)
        PROVE  WorkInv'
    BY <1>3, ClaimKeeps, BeginSubmitKeeps, RefuseKeeps, CompleteKeeps, CreditLateKeeps
  <1>4. CASE FinalizeReadyTasks
    BY <1>4, TickFinalizeKeeps
  <1>5. ASSUME NEW f \in finalizers,
               BeginFinalize(f) \/ Commit(f) \/ Reveal(f) \/ Record(f) \/ FailTask(f)
        PROVE  WorkInv'
    BY <1>5, BeginKeeps, CommitKeeps, RevealKeeps, RecordKeeps, FailKeeps
  <1>6. CASE ReconcileWonBlocks \/ ReconcileTaskStatuses
    BY <1>6, ReconcileSettles, SettleKeeps
  <1>7. ASSUME NEW t \in Tasks, MainnetDecides(t)  PROVE WorkInv'
    BY <1>7, DecideKeeps
  <1>8. CASE Crash
    BY <1>8, CrashKeeps
  <1>9. CASE UNCHANGED vars
    BY <1>9, StutterKeeps
  <1> QED  BY <1>1, <1>2, <1>3, <1>4, <1>5, <1>6, <1>7, <1>8, <1>9 DEF Next

-------------------------------------------------------------------------------
(* Time: the tasks are closed one after the other, and a share is created   *)
(* when its task is the next to be closed.                                 *)

Ended(tasks) == { t \in Tasks : tasks[t].status \notin Open }

DatesInv ==
    /\ clock = Cardinality(Ended(task))
    /\ \A t \in Tasks : task[t].status \in Open => task[t].done = 0
    /\ \A t \in Tasks : task[t].status \notin Open => task[t].done \in 1..clock
    /\ \A t \in Tasks : task[t].status # "none" => \A u \in 1..(t - 1) : task[u].status \notin Open
    /\ \A s \in shares :
        /\ task[s.task].status \in Open => s.created = clock
        /\ task[s.task].status \notin Open => s.created = task[s.task].done - 1

LEMMA TasksFinite ==
    /\ IsFiniteSet(Tasks) /\ Cardinality(Tasks) = MaxTasks
    /\ \A tasks : /\ IsFiniteSet(Ended(tasks)) /\ Cardinality(Ended(tasks)) \in Nat
                  /\ Cardinality(Ended(tasks)) <= MaxTasks
  <1>1. IsFiniteSet(Tasks) /\ Cardinality(Tasks) = MaxTasks
    BY PoolAssumption, FS_Interval DEF Tasks
  <1>2. \A tasks : Ended(tasks) \in SUBSET Tasks
    BY DEF Ended
  <1> QED  BY <1>1, <1>2, FS_Subset, FS_CardinalityType

(* A step in which no task closes.                                         *)
LEMMA DatesStay ==
    ASSUME WorkInv, DatesInv, UNCHANGED clock,
           \A t \in Tasks : /\ task'[t].status \in Open <=> task[t].status \in Open
                            /\ task'[t].done = task[t].done,
           \A t \in Tasks : task'[t].status # "none" =>
               task[t].status # "none" \/ \A u \in 1..(t - 1) : task[u].status \notin Open,
           \A s \in shares' : /\ s.task \in Tasks
                              /\ s \in shares \/ (task[s.task].status \in Open /\ s.created = clock)
    PROVE  DatesInv'
  <1>1. Ended(task') = Ended(task)
    BY DEF Ended
  <1>2. \A t \in Tasks : \A u \in 1..(t - 1) : u \in Tasks
    BY PoolAssumption DEF Tasks
  <1>3. \A t \in Tasks : task'[t].status # "none" => \A u \in 1..(t - 1) : task'[u].status \notin Open
    BY <1>2 DEF DatesInv
  <1>4. \A s \in shares' :
        /\ task'[s.task].status \in Open => s.created = clock'
        /\ task'[s.task].status \notin Open => s.created = task'[s.task].done - 1
    BY DEF DatesInv
  <1>5. /\ clock' = Cardinality(Ended(task'))
        /\ \A t \in Tasks : task'[t].status \in Open => task'[t].done = 0
        /\ \A t \in Tasks : task'[t].status \notin Open => task'[t].done \in 1..clock'
    BY <1>1 DEF DatesInv
  <1> QED  BY <1>3, <1>4, <1>5 DEF DatesInv

(* At most one task is under way: any other that is not ended was not asked *)
(* for, and has no shares.                                                 *)
LEMMA OneUnderWay ==
    ASSUME WorkInv, DatesInv, NEW t \in Tasks, task[t].status \in Open \ {"none"},
           NEW u \in Tasks, u # t, task[u].status \in Open
    PROVE  task[u].status = "none" /\ u > t /\ \A s \in shares : s.task # u
  <1>1. t \in Int /\ u \in Int /\ (u < t => u \in 1..(t - 1)) /\ (t < u => t \in 1..(u - 1))
    BY PoolAssumption DEF Tasks
  <1>2. ~(u < t) /\ (task[u].status # "none" => ~(t < u))
    BY <1>1 DEF DatesInv
  <1>3. task[u].status = "none" /\ u > t
    BY <1>1, <1>2
  <1>4. DOMAIN chunks[u] = {}
    BY <1>3 DEF WorkInv, ChunksInv
  <1> QED  BY <1>3, <1>4 DEF WorkInv, SharesInv, Earned

(* A step that closes the task under way.                                  *)
LEMMA DatesAdvance ==
    ASSUME WorkInv, DatesInv, NEW t \in Tasks, task[t].status = "submitting",
           NEW row \in TaskRows, row.status \notin Open, row.done = clock + 1,
           task' = [task EXCEPT ![t] = row], clock' = clock + 1,
           \A r \in shares' : \E s \in shares : r.task = s.task /\ r.created = s.created
    PROVE  DatesInv'
  <1>1. task'[t] = row /\ \A u \in Tasks : u # t => task'[u] = task[u]
    BY DEF WorkInv, Typed
  <1>2. clock \in Nat /\ task[t].status \in Open
    BY DEF WorkInv, Typed, Open
  <1>3. clock' = Cardinality(Ended(task'))
    <2>1. Ended(task') = Ended(task) \cup {t} /\ t \notin Ended(task)
      BY <1>1, <1>2 DEF Ended
    <2> QED  BY <2>1, TasksFinite, FS_AddElement DEF DatesInv
  <1>4. \A u \in Tasks : task'[u].status \in Open => task'[u].done = 0
    BY <1>1 DEF DatesInv
  <1>5. ASSUME NEW u \in Tasks, task'[u].status \notin Open  PROVE task'[u].done \in 1..clock'
    <2>1. CASE u = t
      BY <1>1, <1>2, <2>1
    <2>2. CASE u # t
      <3>1. task[u].done \in 1..clock /\ task'[u] = task[u]
        BY <1>1, <1>5, <2>2 DEF DatesInv
      <3> QED  BY <1>2, <3>1
    <2> QED  BY <2>1, <2>2
  <1>6. ASSUME NEW u \in Tasks, task'[u].status # "none", NEW v \in 1..(u - 1)
        PROVE  task'[v].status \notin Open
    <2>1. v \in Tasks
      BY PoolAssumption DEF Tasks
    <2>2. task[u].status # "none"
      BY <1>1, <1>6
    <2> QED  BY <1>1, <2>1, <2>2 DEF DatesInv
  <1>7. ASSUME NEW r \in shares'
        PROVE  /\ task'[r.task].status \in Open => r.created = clock'
               /\ task'[r.task].status \notin Open => r.created = task'[r.task].done - 1
    <2>1. PICK s \in shares : r.task = s.task /\ r.created = s.created
      OBVIOUS
    <2>2. s.task \in Tasks
      BY DEF WorkInv, Typed, ShareRows
    <2>3. CASE s.task = t
      BY <1>1, <1>2, <2>1, <2>3 DEF DatesInv
    <2>4. CASE s.task # t
      <3>1. task[s.task].status \notin Open
        BY <1>2, <2>2, <2>4, OneUnderWay
      <3> QED  BY <1>1, <2>1, <2>2, <2>4, <3>1 DEF DatesInv
    <2> QED  BY <2>3, <2>4
  <1> QED  BY <1>3, <1>4, <1>5, <1>6, <1>7 DEF DatesInv

(* The steps that mean nothing to whoever accounts: no task closes or is    *)
(* settled, and shares that are added are not credited.                    *)
QuietTasks ==
    /\ UNCHANGED clock
    /\ \A t \in Tasks :
        /\ task'[t].done = task[t].done
        /\ task'[t].status = task[t].status \/ (task[t].status \in Open /\ task'[t].status \in Open)
        /\ task'[t].status # "none" =>
               task[t].status # "none" \/ \A u \in 1..(t - 1) : task[u].status \notin Open

QuietShares ==
    /\ shares \subseteq shares'
    /\ \A s \in shares' : /\ s.task \in Tasks
                          /\ s \notin shares => /\ task[s.task].status \in Open
                                                /\ s.created = clock /\ ~s.credited

Quiet == QuietTasks /\ QuietShares

LEMMA SameIsQuiet ==
    ASSUME WorkInv, UNCHANGED << task, shares, clock >>
    PROVE  Quiet
  BY DEF WorkInv, Typed, ShareRows, Quiet, QuietTasks, QuietShares

LEMMA CompleteIsQuiet ==
    ASSUME WorkInv, NEW w \in Workers, CompleteChunk(w)
    PROVE  Quiet
  <1> DEFINE t == flight[w].task
             c == flight[w].chunk
             n == Share(t, c, w, Units(t))
  <1>1. t \in Tasks /\ c \in DOMAIN chunks[t]
    BY DEF CompleteChunk, WorkInv, FlightInv, Valid, Typed, Submissions, NoRequest
  <1>2. UNCHANGED << task, clock >>
    BY DEF CompleteChunk
  <1>3. CASE ~StillOpen(t, c)
    BY <1>2, <1>3, SameIsQuiet DEF CompleteChunk
  <1>4. CASE StillOpen(t, c)
    <2>1. shares' = shares \cup {n}
      BY <1>4 DEF CompleteChunk
    <2>2. n.task = t /\ n.created = clock /\ ~n.credited
      BY DEF Share
    <2> HIDE DEF n, t, c
    <2>3. task[t].status \in Open
      BY <1>1, <1>4 DEF StillOpen, WorkInv, ChunksInv, Done, Open
    <2>4. QuietTasks
      BY <1>2 DEF QuietTasks
    <2>5. QuietShares
      BY <1>1, <2>1, <2>2, <2>3 DEF QuietShares, WorkInv, Typed, ShareRows
    <2> QED  BY <2>4, <2>5 DEF Quiet
  <1> QED  BY <1>3, <1>4

LEMMA CreditLateIsQuiet ==
    ASSUME WorkInv, NEW w \in Workers, CreditLateShare(w)
    PROVE  Quiet
  <1> DEFINE t == flight[w].task
             c == flight[w].chunk
  <1>1. t \in Tasks
    BY DEF CreditLateShare, WorkInv, Typed, Submissions, NoRequest
  <1>2. UNCHANGED << task, clock >>
    BY DEF CreditLateShare
  <1>3. CASE ~LateCreditable(t, c, w)
    BY <1>2, <1>3, SameIsQuiet DEF CreditLateShare
  <1>4. CASE LateCreditable(t, c, w)
    <2>1. PICK units \in 1..TaskUnits : shares' = shares \cup { Share(t, c, w, units) }
      BY <1>4 DEF CreditLateShare
    <2> DEFINE n == Share(t, c, w, units)
    <2>2. n.task = t /\ n.created = clock /\ ~n.credited /\ shares' = shares \cup {n}
      BY <2>1 DEF Share
    <2> HIDE DEF n, t, c
    <2>3. task[t].status \in Open
      BY <1>4 DEF LateCreditable, Open
    <2>4. QuietTasks
      BY <1>2 DEF QuietTasks
    <2>5. QuietShares
      BY <1>1, <2>2, <2>3 DEF QuietShares, WorkInv, Typed, ShareRows
    <2> QED  BY <2>4, <2>5 DEF Quiet
  <1> QED  BY <1>3, <1>4

LEMMA EnsureIsQuiet ==
    ASSUME WorkInv, EnsureActiveTask
    PROVE  Quiet
  <1>1. PICK t \in Tasks : /\ task[t].status = "none"
                           /\ \A u \in 1..(t - 1) : task[u].status # "none"
                           /\ task' = [task EXCEPT ![t].status = "gathering"]
    BY DEF EnsureActiveTask
  <1>2. /\ UNCHANGED << shares, clock >>
        /\ \A u \in Tasks : task[u].status \notin {"gathering", "submitting"}
    BY DEF EnsureActiveTask
  <1>3. task \in [Tasks -> TaskRows]
    BY DEF WorkInv, Typed
  <1>4. /\ task'[t].status = "gathering" /\ task'[t].done = task[t].done
        /\ \A u \in Tasks : u # t => task'[u] = task[u]
    BY <1>1, <1>3 DEF TaskRows
  <1>5. \A u \in 1..(t - 1) : u \in Tasks
    BY PoolAssumption DEF Tasks
  <1>6. QuietTasks
    BY <1>1, <1>2, <1>4, <1>5 DEF QuietTasks, Open
  <1>7. QuietShares
    BY <1>2 DEF QuietShares, WorkInv, Typed, ShareRows
  <1> QED  BY <1>6, <1>7 DEF Quiet

LEMMA BeginIsQuiet ==
    ASSUME WorkInv, NEW f \in finalizers, BeginFinalize(f)
    PROVE  Quiet
  <1>1. UNCHANGED << shares, clock >>
    BY DEF BeginFinalize
  <1>2. CASE ~Takes(f)
    BY <1>1, <1>2, SameIsQuiet DEF BeginFinalize
  <1>3. CASE Takes(f)
    <2>1. task' = [task EXCEPT ![f.task].status = "submitting"] /\ task[f.task].status = "gathering"
      BY <1>3 DEF BeginFinalize, Takes
    <2>2. f.task \in Tasks /\ task \in [Tasks -> TaskRows]
      BY FinalizerTypes DEF WorkInv, Typed
    <2>3. /\ task'[f.task].status = "submitting" /\ task'[f.task].done = task[f.task].done
          /\ \A u \in Tasks : u # f.task => task'[u] = task[u]
      BY <2>1, <2>2 DEF TaskRows
    <2>4. QuietTasks
      BY <1>1, <2>1, <2>2, <2>3 DEF QuietTasks, Open
    <2>5. QuietShares
      BY <1>1 DEF QuietShares, WorkInv, Typed, ShareRows
    <2> QED  BY <2>4, <2>5 DEF Quiet
  <1> QED  BY <1>2, <1>3

(* All the others close a task or settle one.                              *)
LEMMA StepsByKind ==
    ASSUME WorkInv, [Next]_vars
    PROVE  \/ Quiet
           \/ \E f \in finalizers : Record(f) \/ FailTask(f)
           \/ \E t \in Unsettled, status \in Statuses \ Open : Settle(t, status)
  <1>1. CASE ExpireStaleAssignments \/ FinalizeReadyTasks \/ Crash \/ UNCHANGED vars
    BY <1>1, SameIsQuiet DEF ExpireStaleAssignments, FinalizeReadyTasks, Crash, vars
  <1>2. ASSUME NEW w \in Workers, ClaimWork(w) \/ BeginSubmit(w) \/ RefuseSegment(w)  PROVE Quiet
    BY <1>2, SameIsQuiet DEF ClaimWork, BeginSubmit, RefuseSegment
  <1>3. ASSUME NEW f \in finalizers, Commit(f) \/ Reveal(f)  PROVE Quiet
    BY <1>3, SameIsQuiet DEF Commit, Reveal
  <1>4. ASSUME NEW t \in Tasks, MainnetDecides(t)  PROVE Quiet
    BY <1>4, SameIsQuiet DEF MainnetDecides
  <1> QED  BY <1>1, <1>2, <1>3, <1>4, CompleteIsQuiet, CreditLateIsQuiet, EnsureIsQuiet, BeginIsQuiet,
              ReconcileSettles DEF Next

LEMMA QuietDates ==
    ASSUME WorkInv, DatesInv, Quiet
    PROVE  DatesInv'
  <1>1. \A t \in Tasks : /\ task'[t].status \in Open <=> task[t].status \in Open
                         /\ task'[t].done = task[t].done
    BY DEF Quiet, QuietTasks
  <1>2. \A t \in Tasks : task'[t].status # "none" =>
            task[t].status # "none" \/ \A u \in 1..(t - 1) : task[u].status \notin Open
    BY DEF Quiet, QuietTasks
  <1>3. \A s \in shares' : /\ s.task \in Tasks
                           /\ s \in shares \/ (task[s.task].status \in Open /\ s.created = clock)
    BY DEF Quiet, QuietShares
  <1> QED  BY <1>1, <1>2, <1>3, DatesStay DEF Quiet, QuietTasks

(* What a settlement, a failure and a recorded answer do to the row.        *)
LEMMA SettleRow ==
    ASSUME WorkInv, NEW t \in Unsettled, NEW status \in Statuses \ Open, Settle(t, status)
    PROVE  /\ t \in Tasks /\ task[t].status \in {"submitted", "validation_pending"}
           /\ task'[t].status = status /\ task'[t].done = task[t].done
           /\ \A u \in Tasks : u # t => task'[u] = task[u]
           /\ UNCHANGED << shares, clock >>
  <1>1. t \in Tasks /\ task[t].status \in {"submitted", "validation_pending"} /\ task \in [Tasks -> TaskRows]
    BY DEF Unsettled, WorkInv, Typed
  <1>2. task' = [task EXCEPT ![t] = [status |-> status, done |-> task[t].done, block |-> status = "accepted"]]
        /\ UNCHANGED << shares, clock >>
    BY DEF Settle, SettledAt
  <1> QED  BY <1>1, <1>2

LEMMA SettleDates ==
    ASSUME WorkInv, DatesInv, NEW t \in Unsettled, NEW status \in Statuses \ Open, Settle(t, status)
    PROVE  DatesInv'
  <1>1. \A u \in Tasks : /\ task'[u].status \in Open <=> task[u].status \in Open
                         /\ task'[u].done = task[u].done
                         /\ task'[u].status # "none" => task[u].status # "none"
    BY SettleRow DEF Open
  <1>2. \A s \in shares' : s.task \in Tasks /\ s \in shares
    BY SettleRow DEF WorkInv, Typed, ShareRows
  <1> QED  BY <1>1, <1>2, SettleRow, DatesStay

LEMMA FailRow ==
    ASSUME WorkInv, NEW f \in finalizers, FailTask(f)
    PROVE  \E row \in TaskRows :
               /\ row.status \in {"error", "lost"} /\ row.done = clock + 1
               /\ task' = [task EXCEPT ![f.task] = row] /\ clock' = clock + 1 /\ UNCHANGED shares
               /\ f.task \in Tasks /\ task[f.task].status = "submitting"
  <1> DEFINE t == f.task
  <1>1. f.step # "begin" /\ clock' = clock + 1 /\ UNCHANGED shares
    BY DEF FailTask
  <1>2. t \in Tasks /\ task[t].status = "submitting" /\ task[t] \in TaskRows /\ task \in [Tasks -> TaskRows]
    BY <1>1, FinalizerTypes DEF WorkInv, Typed
  <1>3. PICK status \in {"error", "lost"} :
            task' = [task EXCEPT ![f.task].status = status, ![f.task].done = clock']
    BY DEF FailTask
  <1> DEFINE row == [status |-> status, done |-> clock + 1, block |-> task[t].block]
  <1>4. row \in TaskRows /\ row.status = status /\ row.done = clock + 1
    BY <1>2 DEF WorkInv, Typed, TaskRows, Statuses
  <1>5. task' = [task EXCEPT ![f.task] = row]
    <2>1. [[task[t] EXCEPT !.status = status] EXCEPT !.done = clock + 1] = row
      BY <1>2, RowWritten
    <2>2. task' = [task EXCEPT ![t] = [[task[t] EXCEPT !.status = status] EXCEPT !.done = clock + 1]]
      BY <1>1, <1>2, <1>3
    <2> QED  BY <2>1, <2>2
  <1> HIDE DEF row
  <1> QED  BY <1>1, <1>2, <1>4, <1>5

LEMMA RecordRow ==
    ASSUME WorkInv, NEW f \in finalizers, Record(f)
    PROVE  /\ f.step \in {"won", "blockless", "pending", "lost"}
           /\ f.task \in Tasks /\ task[f.task].status = "submitting" /\ clock' = clock + 1
           /\ shares' = { Recorded(s, f.task, f.step) : s \in shares }
           /\ \E row \in TaskRows :
                /\ row.status = StatusOf(f.step) /\ row.done = clock + 1 /\ row.status \notin Open
                /\ task' = [task EXCEPT ![f.task] = row]
  <1> DEFINE row == [status |-> StatusOf(f.step), done |-> clock + 1, block |-> f.step = "won"]
  <1>1. f.step \in {"won", "blockless", "pending", "lost"} /\ f.step # "begin" /\ clock' = clock + 1
    BY DEF Record
  <1>2. f.task \in Tasks /\ task[f.task].status = "submitting"
    BY <1>1, FinalizerTypes
  <1>3. row \in TaskRows /\ row.status \notin Open /\ row.status = StatusOf(f.step) /\ row.done = clock + 1
    BY <1>1 DEF WorkInv, Typed, TaskRows, Statuses, Open, StatusOf
  <1>4. task' = [task EXCEPT ![f.task] = row] /\ shares' = { Recorded(s, f.task, f.step) : s \in shares }
    BY DEF Record, Recorded
  <1> HIDE DEF row
  <1> QED  BY <1>1, <1>2, <1>3, <1>4

LEMMA CloseDates ==
    ASSUME WorkInv, DatesInv, NEW f \in finalizers, Record(f) \/ FailTask(f)
    PROVE  DatesInv'
  <1>1. CASE Record(f)
    <2>1. \A r \in shares' : \E s \in shares : r.task = s.task /\ r.created = s.created
      BY <1>1, RecordRow, RecordedShare DEF WorkInv, Typed
    <2> QED  BY <1>1, <2>1, RecordRow, DatesAdvance
  <1>2. CASE FailTask(f)
    <2>1. PICK row \in TaskRows :
               /\ row.status \in {"error", "lost"} /\ row.done = clock + 1
               /\ task' = [task EXCEPT ![f.task] = row] /\ clock' = clock + 1 /\ UNCHANGED shares
               /\ f.task \in Tasks /\ task[f.task].status = "submitting"
      BY <1>2, FailRow
    <2>2. row.status \notin Open
      BY <2>1 DEF Open
    <2> QED  BY <2>1, <2>2, DatesAdvance
  <1> QED  BY <1>1, <1>2

LEMMA InitDates ==
    ASSUME Init
    PROVE  DatesInv
  <1>1. Ended(task) = {}
    BY DEF Init, Ended, Unasked, Open
  <1> QED  BY <1>1, FS_EmptySet DEF Init, DatesInv, Unasked, Open

LEMMA NextDates ==
    ASSUME WorkInv, DatesInv, [Next]_vars
    PROVE  DatesInv'
  BY StepsByKind, QuietDates, CloseDates, SettleDates

-------------------------------------------------------------------------------
(* The properties                                                          *)

PoolInv == WorkInv /\ DatesInv

LEMMA PoolInvHolds == Spec => []PoolInv
  <1>1. Init => PoolInv
    BY InitWorks, InitDates DEF PoolInv
  <1>2. PoolInv /\ [Next]_vars => PoolInv'
    BY NextKeeps, NextDates DEF PoolInv
  <1> QED  BY <1>1, <1>2, PTL DEF Spec

LEMMA InvTypes ==
    ASSUME PoolInv
    PROVE  TypeOK
  <1>1. clock \in 0..MaxTasks
    BY TasksFinite, PoolAssumption DEF PoolInv, DatesInv, WorkInv, Typed
  <1>2. ASSUME NEW t \in Tasks
        PROVE  /\ task[t].status \in Statuses /\ task[t].done \in 0..clock
               /\ mainnet[t] \in MainnetStatus /\ DOMAIN chunks[t] \subseteq 1..TaskUnits
    <2>1. task[t] \in TaskRows /\ mainnet[t] \in MainnetStatus /\ chunks[t] \in Tables
      BY DEF PoolInv, WorkInv, Typed
    <2>2. task[t].done \in 0..clock
      BY <1>1 DEF PoolInv, DatesInv
    <2> QED  BY <2>1, <2>2, TableTypes DEF TaskRows
  <1>3. tick = "finalize" <=> \E f \in finalizers : f.by = "tick"
    BY DEF PoolInv, WorkInv, FinalizersInv
  <1> QED  BY <1>1, <1>2, <1>3 DEF TypeOK, Statuses, Open, MainnetStatus

(* However the submissions of the workers cross (submit_work and the late   *)
(* credit of a race), a completed chunk pays the worker it records, whole,  *)
(* and nobody twice; outside a race it pays nobody else.                   *)
THEOREM SharesArePaidOnce == Spec => []SharesMatchWork
  <1>1. PoolInv => SharesMatchWork
    <2> SUFFICES ASSUME PoolInv, NEW t \in Tasks, NEW c \in DOMAIN chunks[t]
                 PROVE  LET paid == { s \in shares : s.task = t /\ s.chunk = c }
                        IN  /\ chunks[t][c].status = "completed" =>
                                \E s \in paid : s.worker = chunks[t][c].worker /\ s.units = Units(t)
                            /\ chunks[t][c].status # "completed" => paid = {}
                            /\ \A r, s \in paid : r # s => IsRace(t) /\ r.worker # s.worker
      BY InvTypes DEF SharesMatchWork
    <2>1. PaidWhole(t, c, shares, chunks) /\ UnitsIn(chunks[t]) = Units(t)
      BY DEF PoolInv, WorkInv, SharesInv, UnitsIn, Units, Race, IsRace
    <2>2. \A s \in shares : s.task = t /\ s.chunk = c => chunks[t][c].status = "completed"
      BY DEF PoolInv, WorkInv, SharesInv, Earned
    <2>3. \A r, s \in shares : r.task = t /\ s.task = t /\ r.chunk = c /\ s.chunk = c /\ r # s =>
              IsRace(t) /\ r.worker # s.worker
      BY DEF PoolInv, WorkInv, SharesInv, Apart, Race, IsRace
    <2> QED  BY <2>1, <2>2, <2>3 DEF PaidWhole
  <1> QED  BY <1>1, PoolInvHolds, PTL

(* Shares are credited with their task (the end of finalize_task) or not at *)
(* all: none that crosses it is left behind.                               *)
THEOREM SharesAreCreditedTogether == Spec => []NoShareLeftUncredited
  <1>1. PoolInv => NoShareLeftUncredited
    BY DEF PoolInv, WorkInv, CreditInv, NoShareLeftUncredited
  <1> QED  BY <1>1, PoolInvHolds, PTL

-------------------------------------------------------------------------------
(* What a task credits                                                     *)

Counted(t, w, ss, d) == { s \in ss : s.task = t /\ s.worker = w /\ s.credited /\ s.created = d - 1 }
CreditIn(t, w, ss, d) == SumFunction([s \in Counted(t, w, ss, d) |-> s.units])
UnitsOf(ss) == [s \in ss |-> s.units]

LEMMA CreditIsSum ==
    ASSUME NEW t, NEW w, NEW ss, IsFiniteSet(ss), \A s \in ss : s.units \in Int, NEW d
    PROVE  CreditIn(t, w, ss, d) = Sum(UnitsOf(ss), Counted(t, w, ss, d))
  <1> DEFINE C == Counted(t, w, ss, d)
             f == [s \in C |-> s.units]
  <1>1. C \in SUBSET ss
    BY DEF Counted
  <1>2. IsFiniteSet(C)
    BY <1>1, FS_Subset
  <1> HIDE DEF C
  <1>3. Terms(f, C) /\ \A s \in C : f[s] = UnitsOf(ss)[s]
    BY <1>1, <1>2 DEF Terms, UnitsOf
  <1>4. DOMAIN f = C
    OBVIOUS
  <1>5. SumFunction(f) = Sum(f, C)
    BY <1>4 DEF SumFunction, Sum
  <1> HIDE DEF f
  <1>6. Sum(f, C) = Sum(UnitsOf(ss), C)
    BY <1>3, SumSame
  <1> QED  BY <1>5, <1>6 DEF CreditIn, f, C

(* A set of shares that pays the task t, all of whose chunks are completed. *)
Settled(t, ss, table) ==
    /\ ss \subseteq ShareRows /\ IsFiniteSet(ss)
    /\ DOMAIN table[t] = 1..TaskUnits \/ (HybridRace /\ DOMAIN table[t] = {1})
    /\ Done(table[t])
    /\ \A s \in ss : Earned(s, table)
    /\ \A r, s \in ss : Apart(r, s, table)
    /\ \A c \in DOMAIN table[t] : PaidWhole(t, c, ss, table)

Of(t, ss) == { s \in ss : s.task = t }

LEMMA OfTask ==
    ASSUME NEW t \in Tasks, NEW ss, NEW table, Settled(t, ss, table)
    PROVE  /\ IsFiniteSet(Of(t, ss)) /\ Terms(UnitsOf(ss), Of(t, ss))
           /\ \A s \in Of(t, ss) : /\ s \in ShareRows /\ s.task = t /\ s.chunk \in DOMAIN table[t]
                                   /\ UnitsOf(ss)[s] = s.units /\ s.units \in 1..TaskUnits
           /\ \A X \in SUBSET Of(t, ss) : Terms(UnitsOf(ss), X) /\ Sum(UnitsOf(ss), X) \in Nat
  <1>1. IsFiniteSet(Of(t, ss))
    BY FS_Subset DEF Of, Settled
  <1>2. \A s \in Of(t, ss) : /\ s \in ShareRows /\ s.task = t /\ s.chunk \in DOMAIN table[t]
                             /\ UnitsOf(ss)[s] = s.units /\ s.units \in 1..TaskUnits
    BY DEF Of, Settled, Earned, UnitsOf, ShareRows
  <1>3. \A s \in Of(t, ss) : UnitsOf(ss)[s] \in Nat
    BY <1>2
  <1>4. ASSUME NEW X \in SUBSET Of(t, ss)
        PROVE  Terms(UnitsOf(ss), X) /\ Sum(UnitsOf(ss), X) \in Nat
    <2>1. IsFiniteSet(X)
      BY <1>1, FS_Subset
    <2> QED  BY <1>3, <2>1, SumIsNat DEF Terms
  <1> QED  BY <1>1, <1>2, <1>4

(* A race: the winner has the whole task, and nobody more than one share.   *)
LEMMA RaceCredit ==
    ASSUME NEW t \in Tasks, NEW ss, NEW table, Settled(t, ss, table), Race(table[t])
    PROVE  /\ Sum(UnitsOf(ss), Of(t, ss)) >= TaskUnits
           /\ \A w : Sum(UnitsOf(ss), { s \in Of(t, ss) : s.worker = w }) \in 0..TaskUnits
  <1> DEFINE A == Of(t, ss)
             u == UnitsOf(ss)
  <1>1. PICK c : DOMAIN table[t] = {c}
    <2>1. CASE DOMAIN table[t] = {1}
      BY <2>1
    <2>2. CASE DOMAIN table[t] = 1..TaskUnits
      <3>1. Cardinality(1..TaskUnits) = TaskUnits
        BY PoolAssumption, FS_Interval
      <3>2. TaskUnits = 1
        BY <2>2, <3>1 DEF Race
      <3> QED  BY <2>2, <3>2
    <2> QED  BY <2>1, <2>2 DEF Settled
  <1>2. PICK s \in A : s.units = TaskUnits
    <2>1. PaidWhole(t, c, ss, table) /\ table[t][c].status = "completed"
      BY <1>1 DEF Settled, Done
    <2> QED  BY <2>1 DEF PaidWhole, UnitsIn, Of
  <1>3. TaskUnits \in Nat
    BY PoolAssumption
  <1>4. Sum(u, A) >= TaskUnits
    <2>1. Sum(u, A) = u[s] + Sum(u, A \ {s}) /\ Sum(u, A \ {s}) \in Nat /\ u[s] = TaskUnits
      BY <1>2, OfTask, SumWithout
    <2> QED  BY <1>3, <2>1
  <1>5. ASSUME NEW w  PROVE Sum(u, { r \in A : r.worker = w }) \in 0..TaskUnits
    <2> DEFINE X == { r \in A : r.worker = w }
    <2>1. CASE X = {}
      BY <1>3, <2>1, SumEmpty
    <2>2. CASE X # {}
      <3>1. PICK r \in X : TRUE
        BY <2>2
      <3>2. X \ {r} = {}
        <4>1. ASSUME NEW q \in X  PROVE q = r
          <5>1. r.chunk = c /\ q.chunk = c /\ r.task = t /\ q.task = t /\ q.worker = r.worker
            BY <1>1, OfTask
          <5>2. Apart(q, r, table)
            BY DEF Settled, Of
          <5> QED  BY <5>1, <5>2 DEF Apart
        <4> QED  BY <4>1
      <3>3. Sum(u, X) = u[r] + Sum(u, X \ {r})
        BY OfTask, SumWithout
      <3>4. u[r] \in 1..TaskUnits
        BY OfTask
      <3>5. Sum(u, X \ {r}) = 0
        BY <3>2, SumEmpty
      <3>6. Sum(u, X) \in 0..TaskUnits
        <4> HIDE DEF X, u
        <4> QED  BY <1>3, <3>3, <3>4, <3>5
      <3> QED  BY <3>6
    <2> QED  BY <2>1, <2>2
  <1> QED  BY <1>4, <1>5

(* Otherwise there is one share of one digit for each digit.                *)
LEMMA DigitsCredit ==
    ASSUME NEW t \in Tasks, NEW ss, NEW table, Settled(t, ss, table), ~Race(table[t])
    PROVE  /\ Sum(UnitsOf(ss), Of(t, ss)) = TaskUnits
           /\ \A w : Sum(UnitsOf(ss), { s \in Of(t, ss) : s.worker = w }) \in 0..TaskUnits
  <1> DEFINE A == Of(t, ss)
             u == UnitsOf(ss)
             h == [s \in A |-> s.chunk]
  <1>1. DOMAIN table[t] = 1..TaskUnits
    BY FS_Singleton DEF Settled, Race
  <1>2. \A s \in A : u[s] = 1 /\ s.chunk \in 1..TaskUnits
    BY <1>1, OfTask DEF Settled, Earned, Of
  <1>3. \A X \in SUBSET A : IsFiniteSet(X) /\ Sum(u, X) = Cardinality(X)
    BY <1>2, OfTask, SumOfOnes, FS_Subset
  <1>4. h \in Bijection(A, 1..TaskUnits)
    <2>1. \A r, s \in A : r.chunk = s.chunk => r = s
      BY OfTask DEF Settled, Apart, Of
    <2>2. \A c \in 1..TaskUnits : \E s \in A : s.chunk = c
      BY <1>1 DEF Settled, Done, PaidWhole, Of
    <2>3. h \in [A -> 1..TaskUnits]
      BY <1>2
    <2> HIDE DEF A
    <2> QED  BY <2>1, <2>2, <2>3 DEF Bijection, Injection, Surjection, IsInjective
  <1>5. Cardinality(A) = TaskUnits
    <2>1. Cardinality(1..TaskUnits) = TaskUnits
      BY PoolAssumption, FS_Interval
    <2>2. IsFiniteSet(A) /\ ExistsBijection(A, 1..TaskUnits)
      BY <1>4, OfTask DEF ExistsBijection
    <2> HIDE DEF A
    <2> QED  BY <2>1, <2>2, FS_Bijection
  <1>6. ASSUME NEW w  PROVE Sum(u, { s \in A : s.worker = w }) \in 0..TaskUnits
    <2> DEFINE X == { s \in A : s.worker = w }
    <2>1. X \in SUBSET A /\ IsFiniteSet(A)
      BY OfTask
    <2>2. Cardinality(X) \in Nat /\ Cardinality(X) <= Cardinality(A)
      BY <2>1, FS_Subset, FS_CardinalityType
    <2>3. Sum(u, X) = Cardinality(X)
      BY <1>3
    <2>4. Sum(u, X) \in 0..TaskUnits
      <3> HIDE DEF X, A, u
      <3> QED  BY <1>5, <2>2, <2>3
    <2> QED  BY <2>4
  <1>7. A \in SUBSET A
    OBVIOUS
  <1> QED  BY <1>3, <1>5, <1>6, <1>7

LEMMA CreditComplete ==
    ASSUME NEW t \in Tasks, NEW ss, NEW table, Settled(t, ss, table), NEW d,
           \A s \in ss : s.task = t => s.credited /\ s.created = d - 1
    PROVE  /\ \A w \in Workers : CreditIn(t, w, ss, d) \in 0..TaskUnits
           /\ SumFunction([w \in Workers |-> CreditIn(t, w, ss, d)]) >= TaskUnits
  <1> DEFINE A == Of(t, ss)
             u == UnitsOf(ss)
             h == [s \in A |-> s.worker]
             f == [w \in Workers |-> CreditIn(t, w, ss, d)]
  <1>1. ASSUME NEW w  PROVE CreditIn(t, w, ss, d) = Sum(u, { s \in A : s.worker = w })
    <2>1. Counted(t, w, ss, d) = { s \in A : s.worker = w }
      BY DEF Counted, Of
    <2>2. IsFiniteSet(ss) /\ \A s \in ss : s.units \in Int
      BY DEF Settled, ShareRows
    <2>3. CreditIn(t, w, ss, d) = Sum(u, Counted(t, w, ss, d))
      BY <2>2, CreditIsSum
    <2> QED  BY <2>1, <2>3
  <1>2. \A w \in Workers : CreditIn(t, w, ss, d) \in 0..TaskUnits
    <2> TAKE w \in Workers
    <2>1. Sum(u, { s \in A : s.worker = w }) \in 0..TaskUnits
      BY RaceCredit, DigitsCredit
    <2> QED  BY <1>1, <2>1
  <1>3. f = Groups(u, A, h, Workers)
    <2>1. ASSUME NEW w \in Workers  PROVE CreditIn(t, w, ss, d) = Group(u, A, h, w)
      <3>1. { s \in A : s.worker = w } = { s \in A : h[s] = w }
        OBVIOUS
      <3> QED  BY <1>1, <3>1 DEF Group
    <2> QED  BY <2>1 DEF Groups
  <1>4. Sum(Groups(u, A, h, Workers), Workers) = Sum(u, A)
    <2>1. Terms(u, A) /\ \A s \in A : h[s] \in Workers
      BY OfTask DEF ShareRows
    <2> HIDE DEF A, u, h
    <2> QED  BY <2>1, PoolAssumption, SumOfGroups
  <1>5. Sum(u, A) >= TaskUnits
    BY PoolAssumption, RaceCredit, DigitsCredit
  <1>6. SumFunction(f) = Sum(f, Workers)
    BY DEF SumFunction, Sum
  <1> QED  BY <1>2, <1>3, <1>4, <1>5, <1>6

-------------------------------------------------------------------------------
(* The ledger                                                              *)

LEMMA CreditRead ==
    /\ \A t, w : CreditOf(t, w) = CreditIn(t, w, shares, task[t].done)
    /\ \A t, w : CreditOf(t, w)' = CreditIn(t, w, shares', task'[t].done)
  BY DEF CreditOf, CreditIn, Counted

LEMMA SameCounted ==
    ASSUME NEW t, NEW w, Counted(t, w, shares', task'[t].done) = Counted(t, w, shares, task[t].done)
    PROVE  CreditOf(t, w)' = CreditOf(t, w)
  BY CreditRead DEF CreditIn

(* The sum of the abstract specification is the one of this module.         *)
LEMMA LedgerSum == \A f : Ledger!SumFunction(f) = SumFunction(f)
  BY DEF Ledger!SumFunction, Ledger!SumFunctionOnSet, Ledger!FoldFunctionOnSet, Ledger!MapThenFoldSet,
         SumFunction, SumFunctionOnSet, FoldFunctionOnSet, MapThenFoldSet

LEMMA OpenOutcome ==
    /\ \A status \in Open : Outcome(status) = "open"
    /\ \A status \in Statuses \ Open : Outcome(status) # "open"
  BY DEF Outcome, Statuses, Open

LEMMA LedgerClosed ==
    ASSUME WorkInv
    PROVE  /\ Ledger!Tasks = Tasks /\ Ledger!Closed = Ended(task)
           /\ \A t \in Tasks : task[t].status \in Open <=> Outcome(task[t].status) = "open"
  <1>1. \A t \in Tasks : task[t].status \in Statuses
    BY DEF WorkInv, Typed, TaskRows
  <1>2. \A t \in Tasks : task[t].status \in Open <=> Outcome(task[t].status) = "open"
    BY <1>1, OpenOutcome
  <1>3. Ledger!Tasks = Tasks
    BY DEF Ledger!Tasks, Tasks
  <1> QED  BY <1>2, <1>3 DEF Ledger!Closed, Ended

LEMMA InitLedger ==
    ASSUME Init
    PROVE  Ledger!LedgerInit
  <1>1. \A t \in Tasks : task[t] = Unasked
    BY DEF Init
  <1>2. ASSUME NEW t \in Tasks, NEW w \in Workers  PROVE CreditOf(t, w) = 0
    <2>1. shares = {} /\ Counted(t, w, {}, task[t].done) = {}
      BY DEF Init, Counted
    <2>2. CreditIn(t, w, {}, task[t].done) = Sum(UnitsOf({}), {})
      BY <2>1, FS_EmptySet, CreditIsSum
    <2> QED  BY <2>1, <2>2, SumEmpty, CreditRead
  <1>3. Ledger!Tasks = Tasks
    BY DEF Ledger!Tasks, Tasks
  <1> QED  BY <1>1, <1>2, <1>3 DEF Ledger!LedgerInit, Ledger!NoCredit, Unasked, Outcome

LEMMA QuietLedger ==
    ASSUME WorkInv, Quiet
    PROVE  UNCHANGED Ledger!ledgerVars
  <1>1. ASSUME NEW t \in Tasks
        PROVE  Outcome(task'[t].status) = Outcome(task[t].status) /\ task'[t].done = task[t].done
    BY OpenOutcome DEF Quiet, QuietTasks
  <1>2. ASSUME NEW t \in Tasks, NEW w \in Workers  PROVE CreditOf(t, w)' = CreditOf(t, w)
    <2>1. Counted(t, w, shares', task'[t].done) = Counted(t, w, shares, task[t].done)
      BY <1>1 DEF Counted, Quiet, QuietShares
    <2> QED  BY <2>1, SameCounted
  <1> QED  BY <1>1, <1>2 DEF Ledger!ledgerVars

LEMMA SettleLedger ==
    ASSUME WorkInv, DatesInv, NEW t \in Unsettled, NEW status \in Statuses \ Open, Settle(t, status)
    PROVE  Ledger!LedgerNext \/ UNCHANGED Ledger!ledgerVars
  <1>1. /\ t \in Tasks /\ task[t].status \in {"submitted", "validation_pending"}
        /\ task'[t].status = status /\ task'[t].done = task[t].done
        /\ \A u \in Tasks : u # t => task'[u] = task[u]
        /\ UNCHANGED shares
    BY SettleRow
  <1>2. \A u \in Tasks : task'[u].done = task[u].done
    BY <1>1
  <1>3. \A u \in Tasks : \A w \in Workers : CreditOf(u, w)' = CreditOf(u, w)
    BY <1>1, <1>2, SameCounted
  <1>4. Outcome(task[t].status) = "pending" /\ Outcome(status) \in {"pending", "accepted", "ended"}
    BY <1>1 DEF Outcome, Statuses, Open
  <1> DEFINE st == [u \in Tasks |-> Outcome(task[u].status)]
  <1>5. [u \in Tasks |-> Outcome(task'[u].status)] = [st EXCEPT ![t] = Outcome(status)] /\ st[t] = "pending"
    BY <1>1, <1>4
  <1>6. \A u \in 1..(t - 1) : u \in Ledger!Closed
    <2>1. \A u \in 1..(t - 1) : u \in Tasks /\ task[u].status \notin Open
      BY <1>1, PoolAssumption DEF Tasks, DatesInv
    <2> QED  BY <2>1, LedgerClosed DEF Ended
  <1>7. CASE Outcome(status) = "pending"
    <2>1. [u \in Tasks |-> Outcome(task'[u].status)] = st
      BY <1>5, <1>7
    <2> QED  BY <1>2, <1>3, <2>1 DEF Ledger!ledgerVars
  <1>8. CASE Outcome(status) # "pending"
    <2>1. Ledger!SettleTask(t)
      BY <1>2, <1>3, <1>4, <1>5, <1>8 DEF Ledger!SettleTask
    <2> QED  BY <1>1, <1>6, <2>1, LedgerClosed DEF Ledger!LedgerNext
  <1> QED  BY <1>7, <1>8

LEMMA LedgerCardinality == \A S : Ledger!Cardinality(S) = Cardinality(S)
  BY DEF Ledger!Cardinality, Cardinality

OutcomesOf(tasks) == [t \in Tasks |-> Outcome(tasks[t].status)]
TimesOf(tasks) == [t \in Tasks |-> tasks[t].done]

LEMMA MapsOfWritten ==
    ASSUME NEW t \in Tasks, NEW row, NEW old \in [Tasks -> TaskRows]
    PROVE  /\ OutcomesOf([old EXCEPT ![t] = row]) = [OutcomesOf(old) EXCEPT ![t] = Outcome(row.status)]
           /\ TimesOf([old EXCEPT ![t] = row]) = [TimesOf(old) EXCEPT ![t] = row.done]
  <1> DEFINE new == [old EXCEPT ![t] = row]
  <1>1. new[t] = row /\ \A u \in Tasks : u # t => new[u] = old[u]
    OBVIOUS
  <1> HIDE DEF new
  <1>2. \A u \in Tasks : u # t => Outcome(new[u].status) = Outcome(old[u].status)
    BY <1>1
  <1>3. OutcomesOf(new) = [OutcomesOf(old) EXCEPT ![t] = Outcome(row.status)]
    BY <1>1, <1>2 DEF OutcomesOf
  <1>4. TimesOf(new) = [TimesOf(old) EXCEPT ![t] = row.done]
    BY <1>1 DEF TimesOf
  <1> QED  BY <1>3, <1>4 DEF new

LEMMA MapsWritten ==
    ASSUME WorkInv, NEW t \in Tasks, NEW row \in TaskRows, task' = [task EXCEPT ![t] = row]
    PROVE  /\ OutcomesOf(task') = [OutcomesOf(task) EXCEPT ![t] = Outcome(row.status)]
           /\ TimesOf(task') = [TimesOf(task) EXCEPT ![t] = row.done]
  <1>1. task \in [Tasks -> TaskRows]
    BY DEF WorkInv, Typed
  <1> QED  BY <1>1, MapsOfWritten

(* A task that fails or is lost leaves no credit; one whose answer credits  *)
(* its shares credits all the work done for it.                            *)
LEMMA EndLedger ==
    ASSUME WorkInv, DatesInv, NEW t \in Tasks, task[t].status = "submitting",
           NEW row \in TaskRows, row.done = clock + 1, row.status \in {"error", "lost", "rejected"},
           task' = [task EXCEPT ![t] = row], UNCHANGED shares
    PROVE  Ledger!LedgerNext
  <1>1. task'[t] = row /\ \A u \in Tasks : u # t => task'[u] = task[u]
    BY DEF WorkInv, Typed
  <1>2. \A u \in Tasks, w \in Workers : CreditOf(u, w)' = CreditOf(u, w)
    <2> TAKE u \in Tasks, w \in Workers
    <2>1. CASE u = t
      <3>1. \A s \in shares : s.task = t => ~s.credited
        BY DEF WorkInv, CreditInv, Open
      <3> QED  BY <2>1, <3>1, SameCounted DEF Counted
    <2>2. CASE u # t
      BY <1>1, <2>2, SameCounted
    <2> QED  BY <2>1, <2>2
  <1>3. Outcome(row.status) = "ended" /\ Outcome(task[t].status) = "open"
    BY DEF Outcome
  <1>4. clock = Ledger!Cardinality(Ledger!Closed)
    BY LedgerClosed, LedgerCardinality DEF DatesInv
  <1>5. /\ OutcomesOf(task') = [OutcomesOf(task) EXCEPT ![t] = "ended"]
        /\ TimesOf(task') = [TimesOf(task) EXCEPT ![t] = clock + 1]
    BY <1>3, MapsWritten
  <1>6. Ledger!Close(t)
    <2>1. UNCHANGED [u \in Tasks |-> [w \in Workers |-> CreditOf(u, w)]]
      BY <1>2
    <2>2. [u \in Tasks |-> Outcome(task[u].status)][t] = "open"
      BY <1>3
    <2> QED  BY <1>4, <1>5, <2>1, <2>2 DEF Ledger!Close, OutcomesOf, TimesOf
  <1>7. \A u \in 1..(t - 1) : u \in Ledger!Closed
    <2>1. \A u \in 1..(t - 1) : u \in Tasks /\ task[u].status \notin Open
      BY PoolAssumption DEF Tasks, DatesInv
    <2> QED  BY <2>1, LedgerClosed DEF Ended
  <1> QED  BY <1>6, <1>7, LedgerClosed DEF Ledger!LedgerNext

LEMMA CreditLedger ==
    ASSUME WorkInv, DatesInv, WorkInv', DatesInv',
           NEW t \in Tasks, task[t].status = "submitting", UNCHANGED chunks,
           NEW row \in TaskRows, row.done = clock + 1, row.status \in {"accepted", "submitted", "validation_pending"},
           task' = [task EXCEPT ![t] = row],
           NEW step, CreditedBy(step), shares' = { Recorded(s, t, step) : s \in shares }
    PROVE  Ledger!LedgerNext
  <1> DEFINE units == [w \in Workers |-> CreditOf(t, w)']
             cr == [u \in Tasks |-> [w \in Workers |-> CreditOf(u, w)]]
  <1>1. task'[t] = row /\ \A u \in Tasks : u # t => task'[u] = task[u]
    BY DEF WorkInv, Typed
  <1>2. shares \subseteq ShareRows /\ row.status \notin Open
    BY DEF WorkInv, Typed, Open
  <1>3. ASSUME NEW u \in Tasks, u # t, NEW w \in Workers  PROVE CreditOf(u, w)' = CreditOf(u, w)
    <2>1. \A s \in shares : s.task # t => Recorded(s, t, step) = s
      BY DEF Recorded
    <2>2. \A s \in shares : Recorded(s, t, step).task = s.task
      BY <1>2, RecordedShare
    <2>3. Counted(u, w, shares', task'[u].done) = Counted(u, w, shares, task[u].done)
      BY <1>1, <1>3, <2>1, <2>2 DEF Counted
    <2> QED  BY <2>3, SameCounted
  <1>4. Settled(t, shares', chunks')
    <2>1. DOMAIN chunks'[t] = 1..TaskUnits \/ (HybridRace /\ DOMAIN chunks'[t] = {1})
      BY <1>1, <1>2 DEF WorkInv, ChunksInv, Open
    <2>2. Done(chunks'[t])
      BY <1>1 DEF WorkInv, ChunksInv
    <2>3. shares' \subseteq ShareRows /\ IsFiniteSet(shares')
      BY DEF WorkInv, Typed
    <2>4. /\ \A s \in shares' : Earned(s, chunks')
          /\ \A r, s \in shares' : Apart(r, s, chunks')
          /\ \A c \in DOMAIN chunks'[t] : PaidWhole(t, c, shares', chunks')
      BY DEF WorkInv, SharesInv
    <2> QED  BY <2>1, <2>2, <2>3, <2>4 DEF Settled
  <1>5. ASSUME NEW r \in shares', r.task = t  PROVE r.credited /\ r.created = row.done - 1
    <2>1. PICK s \in shares : r = Recorded(s, t, step)
      OBVIOUS
    <2>2. r.credited
      <3>1. s \in ShareRows /\ s.task = t
        BY <1>2, <1>5, <2>1, RecordedShare
      <3>2. r = [s EXCEPT !.credited = TRUE]
        BY <2>1, <3>1 DEF Recorded
      <3> QED  BY <3>1, <3>2 DEF ShareRows
    <2>3. r.created = task'[t].done - 1
      BY <1>1, <1>2, <1>5 DEF DatesInv
    <2> QED  BY <1>1, <2>2, <2>3
  <1>6. /\ \A w \in Workers : CreditIn(t, w, shares', row.done) \in 0..TaskUnits
        /\ SumFunction([w \in Workers |-> CreditIn(t, w, shares', row.done)]) >= TaskUnits
    BY <1>4, <1>5, CreditComplete
  <1>7. units = [w \in Workers |-> CreditIn(t, w, shares', row.done)]
    <2>1. ASSUME NEW w  PROVE CreditOf(t, w)' = CreditIn(t, w, shares', row.done)
      BY <1>1, CreditRead
    <2> QED  BY <2>1
  <1>8. units \in [Workers -> 0..TaskUnits] /\ Ledger!SumFunction(units) >= TaskUnits
    BY <1>6, <1>7, LedgerSum
  <1>9. [u \in Tasks |-> [w \in Workers |-> CreditOf(u, w)']] = [cr EXCEPT ![t] = units]
    BY <1>3
  <1>10. Outcome(row.status) \in {"pending", "accepted"} /\ Outcome(task[t].status) = "open"
    BY DEF Outcome
  <1>11. clock = Ledger!Cardinality(Ledger!Closed)
    BY LedgerClosed, LedgerCardinality DEF DatesInv
  <1>12. /\ OutcomesOf(task') = [OutcomesOf(task) EXCEPT ![t] = Outcome(row.status)]
         /\ TimesOf(task') = [TimesOf(task) EXCEPT ![t] = clock + 1]
    BY MapsWritten
  <1>13. Ledger!Close(t)
    <2> HIDE DEF units
    <2> QED  BY <1>8, <1>9, <1>10, <1>11, <1>12 DEF Ledger!Close, OutcomesOf, TimesOf
  <1>14. \A u \in 1..(t - 1) : u \in Ledger!Closed
    <2>1. \A u \in 1..(t - 1) : u \in Tasks /\ task[u].status \notin Open
      BY PoolAssumption DEF Tasks, DatesInv
    <2> QED  BY <2>1, LedgerClosed DEF Ended
  <1> QED  BY <1>13, <1>14, LedgerClosed DEF Ledger!LedgerNext

LEMMA RecordLedger ==
    ASSUME WorkInv, DatesInv, WorkInv', DatesInv', NEW f \in finalizers, Record(f)
    PROVE  Ledger!LedgerNext
  <1>1. PICK row \in TaskRows :
            /\ row.status = StatusOf(f.step) /\ row.done = clock + 1
            /\ task' = [task EXCEPT ![f.task] = row]
    BY RecordRow
  <1>2. /\ f.step \in {"won", "blockless", "pending", "lost"} /\ f.task \in Tasks
        /\ task[f.task].status = "submitting"
        /\ shares' = { Recorded(s, f.task, f.step) : s \in shares }
    BY RecordRow
  <1>3. CASE f.step = "lost"
    <2>1. shares' = shares /\ row.status = "rejected"
      BY <1>1, <1>2, <1>3 DEF Recorded, CreditedBy, StatusOf
    <2> QED  BY <1>1, <1>2, <2>1, EndLedger
  <1>4. CASE f.step # "lost"
    <2>1. CreditedBy(f.step) /\ row.status \in {"accepted", "submitted", "validation_pending"} /\ UNCHANGED chunks
      BY <1>1, <1>2, <1>4 DEF CreditedBy, StatusOf, Record
    <2> QED  BY <1>1, <1>2, <2>1, CreditLedger
  <1> QED  BY <1>3, <1>4

LEMMA FailLedger ==
    ASSUME WorkInv, DatesInv, NEW f \in finalizers, FailTask(f)
    PROVE  Ledger!LedgerNext
  <1>1. PICK row \in TaskRows :
            /\ row.status \in {"error", "lost"} /\ row.done = clock + 1
            /\ task' = [task EXCEPT ![f.task] = row] /\ UNCHANGED shares
            /\ f.task \in Tasks /\ task[f.task].status = "submitting"
    BY FailRow
  <1> QED  BY <1>1, EndLedger

(* The tick and the thread of the last chunk both finalize, shares arrive   *)
(* while they do, settlements come late and out of order: for whoever       *)
(* accounts, a task closes once, at a time that never moves, with all the   *)
(* credit of the work done for it, dated before it closed.                 *)
THEOREM WorkImplementsLedger == Spec => WorkKeepsLedger
  <1>1. Init => Ledger!LedgerInit
    BY InitLedger
  <1>2. PoolInv /\ PoolInv' /\ [Next]_vars => [Ledger!LedgerNext]_(Ledger!ledgerVars)
    <2> SUFFICES ASSUME PoolInv, PoolInv', [Next]_vars
                 PROVE  Ledger!LedgerNext \/ UNCHANGED Ledger!ledgerVars
      OBVIOUS
    <2>1. WorkInv /\ DatesInv /\ WorkInv' /\ DatesInv'
      BY DEF PoolInv
    <2> QED  BY <2>1, StepsByKind, QuietLedger, SettleLedger, RecordLedger, FailLedger
  <1> QED  BY <1>1, <1>2, PoolInvHolds, PTL DEF Spec, WorkKeepsLedger, Ledger!LedgerSpec
===============================================================================
