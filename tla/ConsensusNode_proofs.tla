------------------------- MODULE ConsensusNode_proofs -------------------------
(***************************************************************************)
(* Proofs about ConsensusNode, for every set of blocks and validators.     *)
(***************************************************************************)
EXTENDS ConsensusNode, FiniteSetTheorems, SequenceTheorems, TLAPS

(* The only ways a step changes the chain: one block that extends it, or a  *)
(* tip given up for a sibling and its certified child.                      *)
ChainStep ==
    \/ chain' = chain
    \/ \E b \in Blocks : Extends(chain, b) /\ chain' = Append(chain, b)
    \/ \E parent, child \in Blocks :
          CanReorg(parent, child) /\ chain' = Front(chain) \o << parent, child >>

LEMMA NextIsChainStep ==
    ASSUME TypeOK, [Next]_vars
    PROVE  ChainStep
  <1>1. CASE UNCHANGED vars
    BY <1>1 DEF vars, ChainStep
  <1>2. ASSUME NEW b \in Blocks, Handler(b)  PROVE ChainStep
    <2>1. CASE FinalizeCommit(b)
      <3>1. PICK r \in FinalizeRequest \cap inflight :
              /\ r.block = b
              /\ \/ FinalizeFinds(b)
                 \/ Extends(chain, b) /\ FinalizeImports(b)
                 \/ UNCHANGED chain
        BY <2>1 DEF FinalizeCommit
      <3> QED  BY <3>1 DEF FinalizeFinds, FinalizeImports, ChainStep
    <2>2. CASE MineLocal(b)
      BY <2>2 DEF MineLocal, ChainStep
    <2>3. CASE ~FinalizeCommit(b) /\ ~MineLocal(b)
      BY <1>2, <2>3 DEF Handler, ProposeCheck, ProposeCommit, PromoteAfterSync,
         FinalizeCheck, HeaderCheck, HeaderCommit, VoteCheck, Open, Close, ChainStep
    <2> QED  BY <2>1, <2>2, <2>3
  <1>3. CASE VoteCommit
    <2>1. PICK r \in VoteRequest \cap inflight :
            VoteRecorded(r) \/ VoteFinalizes(r) \/ VoteRejects(r) \/ VoteRolledBack(r)
      BY <1>3 DEF VoteCommit
    <2>2. r.block \in Blocks
      BY <2>1 DEF VoteRequest
    <2>3. CASE VoteFinalizes(r)
      BY <2>2, <2>3 DEF VoteFinalizes, Importable, FinalizeImports, FinalizeFinds, ChainStep
    <2> QED  BY <2>1, <2>3 DEF VoteRecorded, VoteRejects, VoteRolledBack, ChainStep
  <1>4. CASE Replay
    <2>1. ASSUME NEW b \in Blocks, ReplayImports(b)  PROVE ChainStep
      BY <2>1 DEF ReplayImports, Importable, ChainStep
    <2> QED
      BY <1>4, <2>1 DEF Replay, ReplayRow, ReplayStart, ReplaySkips, ReplayFails,
         ReplayCommit, ReplayRecord, ChainStep
  <1>5. CASE \E parent, child \in Blocks : ReorgApply(parent, child)
    BY <1>5 DEF ReorgApply, ChainStep
  <1>6. CASE ReplayStatusRead \/ (\E v \in Validators : ValidatorToggles(v)) \/ Crash
    BY <1>6 DEF ReplayStatusRead, ValidatorToggles, Crash, ChainStep
  <1> QED  BY <1>1, <1>2, <1>3, <1>4, <1>5, <1>6 DEF Next

-------------------------------------------------------------------------------
(* Type correctness.                                                       *)

LEMMA InsertedType ==
    ASSUME TypeOK, NEW b \in Blocks
    PROVE  Inserted(b) \in [Blocks -> Nat]
  <1> DEFINE present == { x \in Blocks : created[x] # 0 }
  <1>1. IsFiniteSet(present)
    BY BlocksAssumption, FS_Subset
  <1>2. Cardinality(present) \in Nat
    BY <1>1, FS_CardinalityType
  <1> HIDE DEF present
  <1>3. Cardinality(present) + 1 \in Nat
    BY <1>2
  <1> QED  BY <1>3 DEF Inserted, TypeOK, present

LEMMA PromotedType ==
    ASSUME NEW p \in [Blocks -> ProposalStatus], NEW c
    PROVE  Promoted(p, c) \in [Blocks -> ProposalStatus]
  BY DEF Promoted, ProposalStatus

LEMMA FinalizeImportsType ==
    ASSUME TypeOK, NEW b \in Blocks, FinalizeImports(b)
    PROVE  chain' \in Seq(Blocks) /\ proposals' \in [Blocks -> ProposalStatus]
  <1>1. chain' \in Seq(Blocks)
    BY DEF FinalizeImports, TypeOK
  <1>2. Promoted(proposals, chain') \in [Blocks -> ProposalStatus]
    BY PromotedType DEF TypeOK
  <1>3. "imported" \in ProposalStatus
    BY DEF ProposalStatus
  <1> QED  BY <1>1, <1>2, <1>3 DEF FinalizeImports

LEMMA InitType == Init => TypeOK
  BY QuorumAssumption DEF Init, TypeOK, ProposalStatus, Vote, HeaderStatus, ReplayIdle, Batch,
     Healthy, Liveness

LEMMA OpenType ==
    ASSUME TypeOK, NEW r \in Request, Open(r)
    PROVE  TypeOK'
  BY DEF Open, TypeOK

LEMMA HandlerType ==
    ASSUME TypeOK, NEW b \in Blocks, Handler(b)
    PROVE  TypeOK'
  <1>1. CASE ProposeCheck(b)
    <2>1. PICK status \in { "pending", "pending_missing_ancestors", "known" } :
            Open([kind |-> "propose", block |-> b, status |-> status])
      BY <1>1 DEF ProposeCheck
    <2>2. [kind |-> "propose", block |-> b, status |-> status] \in Request
      BY DEF Request, ProposeRequest
    <2> QED  BY <2>1, <2>2, OpenType
  <1>2. CASE ProposeCommit(b)
    <2>1. PICK r \in ProposeRequest \cap inflight :
            /\ proposals' = [proposals EXCEPT ![b] =
                               IF @ \in Final \cup {"rejected"} THEN @ ELSE r.status]
            /\ created' = Inserted(b)
            /\ inflight' = IF r.status = "pending_missing_ancestors"
                           THEN (inflight \ {r}) \cup {[kind |-> "sync", block |-> b]}
                           ELSE inflight \ {r}
            /\ UNCHANGED << chain, votes, headers, active, replay, health >>
      BY <1>2 DEF ProposeCommit
    <2>2. [kind |-> "sync", block |-> b] \in Request
      BY DEF Request, SyncRequest
    <2>3. inflight' \subseteq Request
      BY <2>1, <2>2 DEF TypeOK
    <2>4. r.status \in ProposalStatus
      BY DEF ProposeRequest, ProposalStatus
    <2>5. proposals' \in [Blocks -> ProposalStatus]
      BY <2>1, <2>4 DEF TypeOK
    <2> QED  BY <2>1, <2>3, <2>5, InsertedType DEF TypeOK
  <1>3. CASE PromoteAfterSync(b)
    BY <1>3, PromotedType DEF PromoteAfterSync, Close, TypeOK
  <1>4. CASE FinalizeCheck(b)
    <2>1. OnChain(chain, b) \in BOOLEAN
      BY DEF OnChain
    <2>2. [kind |-> "finalize", block |-> b, exists |-> OnChain(chain, b)] \in Request
      BY <2>1 DEF Request, FinalizeRequest
    <2> QED  BY <1>4, <2>2, OpenType DEF FinalizeCheck
  <1>5. CASE FinalizeCommit(b)
    <2>1. PICK r \in FinalizeRequest \cap inflight :
            /\ Close(r)
            /\ \/ FinalizeFinds(b)
               \/ FinalizeImports(b)
               \/ UNCHANGED << chain, proposals >>
            /\ UNCHANGED << created, votes, headers >>
      BY <1>5 DEF FinalizeCommit
    <2>2. chain' \in Seq(Blocks) /\ proposals' \in [Blocks -> ProposalStatus]
      <3>1. CASE FinalizeFinds(b)
        BY <3>1 DEF FinalizeFinds, TypeOK, ProposalStatus
      <3>2. CASE FinalizeImports(b)
        BY <3>2, FinalizeImportsType
      <3>3. CASE UNCHANGED << chain, proposals >>
        BY <3>3 DEF TypeOK
      <3> QED  BY <2>1, <3>1, <3>2, <3>3
    <2> QED  BY <2>1, <2>2 DEF Close, TypeOK
  <1>6. CASE HeaderCheck(b)
    <2>1. PICK status \in HeaderStatus \ {"none"} :
            Open([kind |-> "header", block |-> b, status |-> status])
      BY <1>6 DEF HeaderCheck
    <2>2. [kind |-> "header", block |-> b, status |-> status] \in Request
      BY DEF Request, HeaderRequest
    <2> QED  BY <2>1, <2>2, OpenType
  <1>7. CASE HeaderCommit(b)
    BY <1>7 DEF HeaderCommit, HeaderRequest, Close, TypeOK
  <1>8. CASE MineLocal(b)
    <2>1. proposals' \in [Blocks -> ProposalStatus]
      BY <1>8 DEF MineLocal, TypeOK, ProposalStatus
    <2> QED  BY <1>8, <2>1, InsertedType DEF MineLocal, TypeOK
  <1>9. ASSUME NEW v \in Validators, NEW vote \in { "approve", "reject" }, VoteCheck(v, b, vote)
        PROVE  TypeOK'
    <2>1. [kind |-> "vote", block |-> b, validator |-> v, vote |-> vote] \in Request
      BY DEF Request, VoteRequest
    <2> QED  BY <1>9, <2>1, OpenType DEF VoteCheck
  <1> QED  BY <1>1, <1>2, <1>3, <1>4, <1>5, <1>6, <1>7, <1>8, <1>9 DEF Handler

LEMMA VoteType ==
    ASSUME TypeOK, VoteCommit
    PROVE  TypeOK'
  <1>1. PICK r \in VoteRequest \cap inflight :
          VoteRecorded(r) \/ VoteFinalizes(r) \/ VoteRejects(r) \/ VoteRolledBack(r)
    BY DEF VoteCommit
  <1>2. /\ r.block \in Blocks
        /\ VotesWith(r) \in [Blocks -> [Validators -> Vote]]
    <2>1. r.block \in Blocks /\ r.validator \in Validators /\ r.vote \in Vote
      BY DEF VoteRequest, Vote
    <2> QED  BY <2>1 DEF VotesWith, TypeOK
  <1>3. CASE VoteRecorded(r)
    BY <1>2, <1>3 DEF VoteRecorded, Close, TypeOK
  <1>4. CASE VoteFinalizes(r)
    <2>1. CASE FinalizeImports(r.block)
      BY <1>2, <1>4, <2>1, FinalizeImportsType DEF VoteFinalizes, Close, TypeOK
    <2>2. CASE FinalizeFinds(r.block)
      <3>1. proposals' \in [Blocks -> ProposalStatus] /\ chain' = chain
        BY <2>2 DEF FinalizeFinds, TypeOK, ProposalStatus
      <3> QED  BY <1>2, <1>4, <3>1 DEF VoteFinalizes, Close, TypeOK
    <2> QED  BY <1>4, <2>1, <2>2 DEF VoteFinalizes
  <1>5. CASE VoteRejects(r)
    <2>1. proposals' \in [Blocks -> ProposalStatus]
      BY <1>5 DEF VoteRejects, TypeOK, ProposalStatus
    <2> QED  BY <1>2, <1>5, <2>1 DEF VoteRejects, Close, TypeOK
  <1>6. CASE VoteRolledBack(r)
    BY <1>6 DEF VoteRolledBack, Close, TypeOK
  <1> QED  BY <1>1, <1>3, <1>4, <1>5, <1>6

LEMMA ReplayType ==
    ASSUME TypeOK, Replay
    PROVE  TypeOK'
  <1> DEFINE Batches == [phase : { "idle", "rows", "record" }, todo : SUBSET Blocks,
                         progress : BOOLEAN, divergent : BOOLEAN]
  <1>1. ASSUME NEW phase \in { "idle", "rows", "record" }, NEW todo \in SUBSET Blocks,
               NEW progress \in BOOLEAN, NEW divergent \in BOOLEAN
        PROVE  Batch(phase, todo, progress, divergent) \in Batches
    BY DEF Batch
  <1>2. /\ replay.todo \in SUBSET Blocks
        /\ replay.progress \in BOOLEAN
        /\ replay.divergent \in BOOLEAN
    BY DEF TypeOK
  <1>3. CASE ReplayStart
    <2>1. PICK batch \in SUBSET QueuedHeaders :
            replay' = Batch("rows", batch, proposals' # proposals, FALSE)
      BY <1>3 DEF ReplayStart, HeaderBatches
    <2>2. batch \in SUBSET Blocks
      BY DEF QueuedHeaders
    <2>3. replay' \in Batches
      BY <1>1, <2>1, <2>2
    <2>4. proposals' \in [Blocks -> ProposalStatus]
      BY <1>3 DEF ReplayStart, Normalised, TypeOK, ProposalStatus
    <2> QED  BY <1>3, <2>3, <2>4 DEF ReplayStart, TypeOK
  <1>4. ASSUME NEW b \in Blocks, ReplayImports(b)  PROVE TypeOK'
    <2>1. replay' \in Batches
      BY <1>1, <1>2, <1>4 DEF ReplayImports
    <2>2. headers' \in [Blocks -> HeaderStatus]
      BY <1>4 DEF ReplayImports, TypeOK, HeaderStatus
    <2>3. proposals' \in [Blocks -> ProposalStatus]
      <3>1. Promoted(proposals, chain') \in [Blocks -> ProposalStatus]
        BY PromotedType DEF TypeOK
      <3> QED  BY <1>4, <3>1 DEF ReplayImports, ProposalStatus
    <2>4. chain' \in Seq(Blocks)
      BY <1>4 DEF ReplayImports, TypeOK
    <2> QED  BY <1>4, <2>1, <2>2, <2>3, <2>4 DEF ReplayImports, NextRow, TypeOK
  <1>5. ASSUME NEW b \in Blocks, ReplaySkips(b)  PROVE TypeOK'
    <2>1. replay' \in Batches
      BY <1>1, <1>2, <1>5 DEF ReplaySkips
    <2>2. headers' \in [Blocks -> HeaderStatus]
      BY <1>5 DEF ReplaySkips, TypeOK, HeaderStatus
    <2> QED  BY <1>5, <2>1, <2>2 DEF ReplaySkips, NextRow, TypeOK
  <1>6. ASSUME NEW b \in Blocks, ReplayFails(b)  PROVE TypeOK'
    <2>1. (replay.divergent \/ Diverges(chain, b)) \in BOOLEAN
      OBVIOUS
    <2>2. replay' \in Batches
      BY <1>1, <1>2, <1>6, <2>1 DEF ReplayFails
    <2>3. headers' \in [Blocks -> HeaderStatus]
      BY <1>6 DEF ReplayFails, TypeOK, HeaderStatus
    <2> QED  BY <1>6, <2>2, <2>3 DEF ReplayFails, NextRow, TypeOK
  <1>7. CASE ReplayCommit
    <2>1. replay' \in Batches
      BY <1>1, <1>2, <1>7 DEF ReplayCommit
    <2> QED  BY <1>7, <2>1 DEF ReplayCommit, TypeOK
  <1>8. CASE ReplayRecord
    <2>1. replay' \in Batches
      BY <1>1, <1>8 DEF ReplayRecord, ReplayIdle
    <2>2. Failed \in 0 .. StallFailures
      BY QuorumAssumption DEF Failed, TypeOK
    <2>3. ASSUME NEW status \in { "healthy", "catching_up", "stalled", "divergent" },
                 NEW failures \in 0 .. StallFailures
          PROVE  Liveness(status, failures) \in
                   [status : { "healthy", "catching_up", "stalled", "divergent" },
                    failures : 0 .. StallFailures]
      BY DEF Liveness
    <2>4. 0 \in 0 .. StallFailures
      BY QuorumAssumption
    <2>5. \/ health' = Liveness("divergent", Failed)
          \/ health' = Liveness("catching_up", 0)
          \/ health' = Liveness("healthy", 0)
          \/ health' = Liveness("stalled", Failed)
          \/ health' = Liveness("catching_up", Failed)
      BY <1>8 DEF ReplayRecord, Healthy
    <2>6. health' \in [status : { "healthy", "catching_up", "stalled", "divergent" },
                       failures : 0 .. StallFailures]
      <3> DEFINE S == { "healthy", "catching_up", "stalled", "divergent" }
                 H == [status : S, failures : 0 .. StallFailures]
      <3>1. {"healthy", "catching_up", "stalled", "divergent"} \subseteq S
        OBVIOUS
      <3>2. \A status \in S : \A failures \in 0 .. StallFailures : Liveness(status, failures) \in H
        BY <2>3
      <3> HIDE DEF S, H
      <3>3. health' \in H
        BY <2>2, <2>4, <2>5, <3>1, <3>2
      <3> QED  BY <3>3 DEF H, S
    <2> QED  BY <1>8, <2>1, <2>6 DEF ReplayRecord, TypeOK
  <1> QED  BY <1>3, <1>4, <1>5, <1>6, <1>7, <1>8 DEF Replay, ReplayRow

LEMMA ReorgType ==
    ASSUME TypeOK, NEW parent \in Blocks, NEW child \in Blocks, ReorgApply(parent, child)
    PROVE  TypeOK'
  <1> DEFINE orphan == chain[Len(chain)]
             marked == [b \in Blocks |->
                          IF proposals[b] = "none" THEN "none"
                          ELSE IF b = orphan THEN "rejected"
                          ELSE IF b \in {parent, child} /\ proposals[b] # "rejected"
                          THEN "imported" ELSE proposals[b]]
  <1>1. chain' \in Seq(Blocks)
    <2>1. Front(chain) \in Seq(Blocks)
      BY DEF Front, ReorgApply, CanReorg, TypeOK
    <2>2. << parent, child >> \in Seq(Blocks)
      OBVIOUS
    <2> QED  BY <2>1, <2>2 DEF ReorgApply
  <1>2. marked \in [Blocks -> ProposalStatus]
    BY DEF TypeOK, ProposalStatus
  <1>3. proposals' = Promoted(marked, chain')
    BY DEF ReorgApply
  <1>4. proposals' \in [Blocks -> ProposalStatus]
    BY <1>2, <1>3, PromotedType
  <1>5. headers' \in [Blocks -> HeaderStatus]
    BY DEF ReorgApply, TypeOK, HeaderStatus
  <1>6. health' \in [status : { "healthy", "catching_up", "stalled", "divergent" },
                     failures : 0 .. StallFailures]
    BY QuorumAssumption DEF ReorgApply, Liveness
  <1> QED  BY <1>1, <1>4, <1>5, <1>6 DEF ReorgApply, TypeOK

LEMMA NextType == TypeOK /\ [Next]_vars => TypeOK'
  <1> SUFFICES ASSUME TypeOK, [Next]_vars  PROVE TypeOK'
    OBVIOUS
  <1>1. CASE UNCHANGED vars
    BY <1>1 DEF vars, TypeOK
  <1>2. CASE ReplayStatusRead \/ Crash
    <2>1. ReplayIdle \in [phase : { "idle", "rows", "record" }, todo : SUBSET Blocks,
                          progress : BOOLEAN, divergent : BOOLEAN]
      BY DEF ReplayIdle, Batch
    <2>2. Healthy \in [status : { "healthy", "catching_up", "stalled", "divergent" },
                       failures : 0 .. StallFailures]
      BY QuorumAssumption DEF Healthy, Liveness
    <2>3. CASE ReplayStatusRead
      BY <2>2, <2>3 DEF ReplayStatusRead, TypeOK
    <2>4. CASE Crash
      BY <2>1, <2>2, <2>4 DEF Crash, TypeOK
    <2> QED  BY <1>2, <2>3, <2>4
  <1>3. CASE \E v \in Validators : ValidatorToggles(v)
    BY <1>3 DEF ValidatorToggles, TypeOK
  <1> QED
    BY <1>1, <1>2, <1>3, HandlerType, VoteType, ReplayType, ReorgType DEF Next

(* Every value a handler stores in the tables of a node, or keeps between   *)
(* its read and its write, is one the code knows.                           *)
THEOREM TypeCorrect == Spec => []TypeOK
  BY InitType, NextType, PTL DEF Spec

-------------------------------------------------------------------------------
(* The chain.                                                              *)

LEMMA FrontOfChain ==
    ASSUME NEW c \in Seq(Blocks), c # << >>
    PROVE  /\ Len(c) \in Nat \ {0}
           /\ Front(c) \in Seq(Blocks)
           /\ Len(Front(c)) = Len(c) - 1
           /\ \A h \in 1 .. (Len(c) - 1) : Front(c)[h] = c[h]
           /\ HashAt(Front(c), Len(c) - 1) = HashAt(c, Len(c) - 1)
  <1>1. Len(c) \in Nat \ {0}
    BY EmptySeq, LenProperties
  <1>2. \A h \in 1 .. (Len(c) - 1) : c[h] \in Blocks
    BY <1>1, ElementOfSeq
  <1>3. /\ SubSeq(c, 1, Len(c) - 1) \in Seq(Blocks)
        /\ Len(SubSeq(c, 1, Len(c) - 1))
             = IF 1 <= Len(c) - 1 THEN (Len(c) - 1) - 1 + 1 ELSE 0
        /\ \A i \in 1 .. (Len(c) - 1) - 1 + 1 : SubSeq(c, 1, Len(c) - 1)[i] = c[1 + i - 1]
    BY <1>1, <1>2, SubSeqProperties
  <1>4. Front(c) = SubSeq(c, 1, Len(c) - 1)
    BY DEF Front
  <1>5. /\ Front(c) \in Seq(Blocks)
        /\ Len(Front(c)) = Len(c) - 1
    <2>1. (IF 1 <= Len(c) - 1 THEN (Len(c) - 1) - 1 + 1 ELSE 0) = Len(c) - 1
      <3>1. \A n \in Nat \ {0} : (IF 1 <= n - 1 THEN (n - 1) - 1 + 1 ELSE 0) = n - 1
        OBVIOUS
      <3> QED  BY <1>1, <3>1, Zenon
    <2>2. Front(c) \in Seq(Blocks)
      BY <1>3, <1>4, Zenon
    <2> QED  BY <2>1, <2>2, <1>3, <1>4, Zenon
  <1>6. ASSUME NEW h \in 1 .. (Len(c) - 1)  PROVE Front(c)[h] = c[h]
    <2>1. h \in 1 .. (Len(c) - 1) - 1 + 1 /\ 1 + h - 1 = h
      BY <1>1
    <2> QED  BY <2>1, <1>3, <1>4
  <1>7. HashAt(Front(c), Len(c) - 1) = HashAt(c, Len(c) - 1)
    <2>1. CASE Len(c) - 1 = 0
      BY <2>1, Zenon DEF HashAt
    <2>2. CASE Len(c) - 1 # 0
      <3>1. Len(c) - 1 \in 1 .. (Len(c) - 1)
        <4>1. \A n \in Nat \ {0} : n - 1 # 0 => n - 1 \in 1 .. (n - 1)
          OBVIOUS
        <4> QED  BY <1>1, <2>2, <4>1, Zenon
      <3> QED  BY <1>6, <2>2, <3>1, Zenon DEF HashAt
    <2> QED  BY <2>1, <2>2
  <1> QED  BY <1>1, <1>5, <1>6, <1>7

LEMMA ReorgShape ==
    ASSUME TypeOK, NEW parent \in Blocks, NEW child \in Blocks, CanReorg(parent, child),
           chain' = Front(chain) \o << parent, child >>
    PROVE  /\ Len(chain) \in Nat \ {0}
           /\ chain' \in Seq(Blocks)
           /\ Len(chain') = Len(chain) + 1
           /\ \A h \in 1 .. (Len(chain) - 1) : chain'[h] = chain[h]
           /\ chain'[Len(chain)] = parent
           /\ chain'[Len(chain) + 1] = child
           /\ Height[parent] = Len(chain)
           /\ Parent[parent] = HashAt(chain, Len(chain) - 1)
  <1>1. chain \in Seq(Blocks) /\ chain # << >>
    BY DEF CanReorg, TypeOK
  <1>2. /\ Len(chain) \in Nat \ {0}
        /\ Front(chain) \in Seq(Blocks)
        /\ Len(Front(chain)) = Len(chain) - 1
        /\ \A h \in 1 .. (Len(chain) - 1) : Front(chain)[h] = chain[h]
        /\ HashAt(Front(chain), Len(chain) - 1) = HashAt(chain, Len(chain) - 1)
    BY <1>1, FrontOfChain
  <1>3. /\ << parent, child >> \in Seq(Blocks) /\ Len(<< parent, child >>) = 2
        /\ << parent, child >>[1] = parent /\ << parent, child >>[2] = child
    OBVIOUS
  <1>4. /\ chain' \in Seq(Blocks)
        /\ Len(chain') = (Len(chain) - 1) + 2
        /\ \A i \in 1 .. (Len(chain) - 1) + 2 :
             chain'[i] = IF i <= Len(chain) - 1 THEN Front(chain)[i]
                         ELSE << parent, child >>[i - (Len(chain) - 1)]
    BY <1>2, <1>3, ConcatProperties
  <1>5. \A h \in 1 .. (Len(chain) - 1) : chain'[h] = chain[h]
    BY <1>2, <1>4
  <1>6. chain'[Len(chain)] = parent /\ chain'[Len(chain) + 1] = child
    <2>1. /\ Len(chain) - (Len(chain) - 1) = 1
          /\ (Len(chain) + 1) - (Len(chain) - 1) = 2
          /\ Len(chain) \in 1 .. (Len(chain) - 1) + 2
          /\ Len(chain) + 1 \in 1 .. (Len(chain) - 1) + 2
          /\ ~(Len(chain) <= Len(chain) - 1)
          /\ ~(Len(chain) + 1 <= Len(chain) - 1)
      BY <1>2
    <2>2. chain'[Len(chain)] = << parent, child >>[1]
      BY <1>4, <2>1, Zenon
    <2>3. chain'[Len(chain) + 1] = << parent, child >>[2]
      BY <1>4, <2>1, Zenon
    <2> QED  BY <1>3, <2>2, <2>3
  <1>7. /\ Height[parent] = Len(chain) - 1 + 1
        /\ Parent[parent] = HashAt(Front(chain), Len(chain) - 1)
    BY <1>2 DEF CanReorg, Importable, Extends
  <1> QED  BY <1>2, <1>4, <1>5, <1>6, <1>7, BlocksAssumption

LEMMA LinkedStep ==
    ASSUME TypeOK, ChainLinked, ChainStep
    PROVE  ChainLinked'
  <1>1. CASE chain' = chain
    BY <1>1 DEF ChainLinked, HashAt
  <1>2. ASSUME NEW b \in Blocks, Extends(chain, b), chain' = Append(chain, b)
        PROVE  ChainLinked'
    <2>1. /\ Len(chain) \in Nat /\ Len(chain') = Len(chain) + 1
          /\ DOMAIN chain = 1 .. Len(chain) /\ DOMAIN chain' = 1 .. (Len(chain) + 1)
          /\ \A h \in 1 .. Len(chain) : chain'[h] = chain[h]
          /\ chain'[Len(chain) + 1] = b
      BY <1>2 DEF TypeOK
    <2>2. ASSUME NEW h \in DOMAIN chain'
          PROVE  Height[chain'[h]] = h /\ Parent[chain'[h]] = HashAt(chain', h - 1)
      <3>1. CASE h = Len(chain) + 1
        <4>1. HashAt(chain', Len(chain)) = HashAt(chain, Len(chain))
          BY <2>1 DEF HashAt
        <4> QED  BY <1>2, <2>1, <3>1, <4>1 DEF Extends
      <3>2. CASE h \in 1 .. Len(chain)
        BY <2>1, <3>2 DEF ChainLinked, HashAt
      <3> QED  BY <2>1, <3>1, <3>2
    <2> QED  BY <2>2 DEF ChainLinked
  <1>3. ASSUME NEW parent \in Blocks, NEW child \in Blocks, CanReorg(parent, child),
               chain' = Front(chain) \o << parent, child >>
        PROVE  ChainLinked'
    <2>1. /\ Len(chain) \in Nat \ {0}
          /\ chain' \in Seq(Blocks)
          /\ Len(chain') = Len(chain) + 1
          /\ \A h \in 1 .. (Len(chain) - 1) : chain'[h] = chain[h]
          /\ chain'[Len(chain)] = parent
          /\ chain'[Len(chain) + 1] = child
          /\ Height[parent] = Len(chain)
          /\ Parent[parent] = HashAt(chain, Len(chain) - 1)
      BY <1>3, ReorgShape
    <2>3. DOMAIN chain = 1 .. Len(chain) /\ DOMAIN chain' = 1 .. (Len(chain) + 1)
      BY <2>1 DEF TypeOK
    <2>4. ASSUME NEW h \in DOMAIN chain'
          PROVE  Height[chain'[h]] = h /\ Parent[chain'[h]] = HashAt(chain', h - 1)
      <3>1. CASE h = Len(chain) + 1
        BY <1>3, <2>1, <3>1 DEF CanReorg, HashAt
      <3>2. CASE h = Len(chain)
        BY <2>1, <3>2 DEF HashAt
      <3>3. CASE h \in 1 .. (Len(chain) - 1)
        BY <2>1, <2>3, <3>3 DEF ChainLinked, HashAt
      <3> QED  BY <2>1, <2>3, <3>1, <3>2, <3>3
    <2> QED  BY <2>4 DEF ChainLinked
  <1> QED  BY <1>1, <1>2, <1>3 DEF ChainStep

(* The blocks of the chain are linked by hash and height, whatever votes,   *)
(* local blocks, header replays and reorgs built it.                        *)
THEOREM ChainIsLinked == Spec => []ChainLinked
  <1>1. Init => ChainLinked
    BY DEF Init, ChainLinked
  <1>2. TypeOK /\ ChainLinked /\ [Next]_vars => ChainLinked'
    BY NextIsChainStep, LinkedStep
  <1> QED  BY <1>1, <1>2, TypeCorrect, PTL DEF Spec

-------------------------------------------------------------------------------
(* The chain of a node implements CanonicalChain.                          *)

LEMMA StepIsCanonical == TypeOK /\ [Next]_vars => [Canonical!Next]_chain
  <1> SUFFICES ASSUME TypeOK, [Next]_vars  PROVE [Canonical!Next]_chain
    OBVIOUS
  <1>1. ChainStep
    BY NextIsChainStep
  <1>2. ASSUME NEW b \in Blocks, Extends(chain, b), chain' = Append(chain, b)
        PROVE  Canonical!Next
    <2>1. HashAt(chain, Len(chain)) = Canonical!TipOf(chain)
      BY DEF HashAt, Canonical!TipOf, TypeOK
    <2>2. Canonical!Grow(b)
      BY <1>2, <2>1 DEF Extends, Canonical!Grow
    <2> QED  BY <2>2 DEF Canonical!Next
  <1>3. ASSUME NEW parent \in Blocks, NEW child \in Blocks, CanReorg(parent, child),
               chain' = Front(chain) \o << parent, child >>
        PROVE  Canonical!Next
    <2>1. Len(chain) \in Nat \ {0} /\ Parent[parent] = HashAt(chain, Len(chain) - 1)
      BY <1>3, ReorgShape
    <2>2. Front(chain) = SubSeq(chain, 1, Len(chain) - 1)
      BY DEF Front
    <2>3. /\ Front(chain) \in Seq(Blocks)
          /\ Len(Front(chain)) = Len(chain) - 1
          /\ HashAt(Front(chain), Len(chain) - 1) = HashAt(chain, Len(chain) - 1)
      BY <1>3, FrontOfChain DEF CanReorg, TypeOK
    <2>4. Canonical!TipOf(Front(chain)) = HashAt(chain, Len(chain) - 1)
      <3>1. Front(chain) = << >> <=> Len(Front(chain)) = 0
        BY <2>3, EmptySeq
      <3> QED  BY <2>3, <3>1, Zenon DEF Canonical!TipOf, HashAt
    <2>5. Canonical!TipOf(chain) = chain[Len(chain)]
      BY <2>1 DEF Canonical!TipOf
    <2>6. Canonical!Displace(parent, child)
      BY <1>3, <2>1, <2>2, <2>4, <2>5 DEF CanReorg, Canonical!Displace
    <2> QED  BY <2>6 DEF Canonical!Next
  <1> QED  BY <1>1, <1>2, <1>3 DEF ChainStep

(* The table blocks of a node changes only as CanonicalChain lets it: one   *)
(* linked block more, or the tip displaced by a sibling with a certified    *)
(* child.                                                                   *)
THEOREM ImplementsCanonicalChain == Spec => CanonicalSpec
  <1>1. Init => Canonical!Init
    BY DEF Init, Canonical!Init
  <1> QED
    BY <1>1, StepIsCanonical, TypeCorrect, PTL DEF Spec, CanonicalSpec, Canonical!Spec

-------------------------------------------------------------------------------
(* Heights are never given back.                                           *)

LEMMA SettledIsTaken ==
    ASSUME TypeOK, NEW b \in Blocks
    PROVE  Settled(b) <=> Height[b] <= Len(chain)
  <1>1. Height[b] \in Nat \ {0} /\ Len(chain) \in Nat /\ DOMAIN chain = 1 .. Len(chain)
    BY BlocksAssumption DEF TypeOK
  <1> QED  BY <1>1 DEF Settled, OnChain, Conflicts

LEMMA ChainNeverShrinks ==
    ASSUME TypeOK, [Next]_vars
    PROVE  Len(chain) <= Len(chain')
  <1>1. CASE chain' = chain
    BY <1>1 DEF TypeOK
  <1>2. ASSUME NEW b \in Blocks, chain' = Append(chain, b)
        PROVE  Len(chain) <= Len(chain')
    BY <1>2 DEF TypeOK
  <1>3. ASSUME NEW parent \in Blocks, NEW child \in Blocks, CanReorg(parent, child),
               chain' = Front(chain) \o << parent, child >>
        PROVE  Len(chain) <= Len(chain')
    <2>1. Len(chain) \in Nat /\ Len(chain') = Len(chain) + 1
      BY <1>3, ReorgShape
    <2> QED  BY <2>1
  <1> QED  BY <1>1, <1>2, <1>3, NextIsChainStep DEF ChainStep

LEMMA StaysSettled ==
    ASSUME TypeOK, [Next]_vars, NEW b \in Blocks, Settled(b)
    PROVE  Settled(b)'
  <1>1. TypeOK'
    BY NextType
  <1>2. Len(chain) \in Nat /\ Len(chain') \in Nat /\ Height[b] \in Nat
    BY <1>1, BlocksAssumption DEF TypeOK
  <1>3. Height[b] <= Len(chain)
    BY SettledIsTaken
  <1>4. Height[b] <= Len(chain')
    BY <1>2, <1>3, ChainNeverShrinks
  <1>5. \A d \in Blocks : TypeOK' => (Settled(d)' <=> Height[d] <= Len(chain'))
    <2> TAKE d \in Blocks
    <2>1. HAVE TypeOK'
    <2>2. Height[d] \in Nat \ {0} /\ Len(chain') \in Nat /\ DOMAIN chain' = 1 .. Len(chain')
      BY <2>1, BlocksAssumption DEF TypeOK
    <2> QED  BY <2>2 DEF Settled, OnChain, Conflicts
  <1> QED  BY <1>1, <1>4, <1>5

LEMMA StaysOnChain ==
    ASSUME TypeOK, NEW b \in Blocks, OnChain(chain, b),
           chain' = chain \/ \E d \in Blocks : chain' = Append(chain, d)
    PROVE  OnChain(chain', b)
  <1>1. CASE chain' = chain
    BY <1>1
  <1>2. ASSUME NEW d \in Blocks, chain' = Append(chain, d)
        PROVE  OnChain(chain', b)
    <2>1. /\ DOMAIN chain' = 1 .. (Len(chain) + 1) /\ DOMAIN chain = 1 .. Len(chain)
          /\ Len(chain) \in Nat
          /\ \A h \in 1 .. Len(chain) : chain'[h] = chain[h]
      BY <1>2 DEF TypeOK
    <2> QED  BY <2>1 DEF OnChain
  <1> QED  BY <1>1, <1>2

LEMMA AppendedIsOnChain ==
    ASSUME TypeOK, NEW b \in Blocks, Extends(chain, b), chain' = Append(chain, b)
    PROVE  OnChain(chain', b) /\ Settled(b)'
  <1>1. /\ DOMAIN chain' = 1 .. (Len(chain) + 1) /\ Len(chain) \in Nat
        /\ chain'[Len(chain) + 1] = b
    BY DEF TypeOK
  <1>2. OnChain(chain', b)
    BY <1>1 DEF OnChain, Extends
  <1> QED  BY <1>2 DEF Settled

LEMMA PromotedKeepsFinal ==
    ASSUME NEW p, NEW c, NEW b \in Blocks, NEW status \in Final \cup { "known" },
           Promoted(p, c)[b] = status
    PROVE  p[b] = status
  BY DEF Promoted, Final

LEMMA FinalizeImportsKeeps ==
    ASSUME TypeOK, ImportedIsOnChain, NEW d \in Blocks, Extends(chain, d), FinalizeImports(d),
           NEW b \in Blocks, proposals'[b] = "imported"
    PROVE  OnChain(chain', b)
  <1>1. chain' = Append(chain, d)
    BY DEF FinalizeImports
  <1>2. CASE b = d
    BY <1>1, <1>2, AppendedIsOnChain
  <1>3. CASE b # d
    <2>1. Promoted(proposals, chain') \in [Blocks -> ProposalStatus]
      BY PromotedType DEF TypeOK
    <2>2. Promoted(proposals, chain')[b] = "imported"
      BY <1>3, <2>1 DEF FinalizeImports
    <2>3. proposals[b] = "imported"
      BY <2>2, PromotedKeepsFinal DEF Final
    <2> QED  BY <1>1, <2>3, StaysOnChain DEF ImportedIsOnChain
  <1> QED  BY <1>2, <1>3

LEMMA ReorgKeepsImported ==
    ASSUME TypeOK, ImportedIsOnChain, NEW parent \in Blocks, NEW child \in Blocks,
           ReorgApply(parent, child), NEW b \in Blocks, proposals'[b] = "imported"
    PROVE  OnChain(chain', b)
  <1> DEFINE orphan == chain[Len(chain)]
             marked == [d \in Blocks |->
                          IF proposals[d] = "none" THEN "none"
                          ELSE IF d = orphan THEN "rejected"
                          ELSE IF d \in {parent, child} /\ proposals[d] # "rejected"
                          THEN "imported" ELSE proposals[d]]
  <1>1. /\ Len(chain) \in Nat \ {0}
        /\ chain' \in Seq(Blocks)
        /\ Len(chain') = Len(chain) + 1
        /\ \A h \in 1 .. (Len(chain) - 1) : chain'[h] = chain[h]
        /\ chain'[Len(chain)] = parent
        /\ chain'[Len(chain) + 1] = child
        /\ Height[parent] = Len(chain)
    BY ReorgShape DEF ReorgApply
  <1>2. DOMAIN chain' = 1 .. (Len(chain) + 1) /\ DOMAIN chain = 1 .. Len(chain)
    BY <1>1 DEF TypeOK
  <1>3. proposals' = Promoted(marked, chain')
    BY DEF ReorgApply
  <1>4. marked[b] = "imported"
    <2> HIDE DEF marked
    <2> QED  BY <1>3, PromotedKeepsFinal DEF Final
  <1>5. CASE b \in {parent, child}
    BY <1>1, <1>2, <1>5 DEF OnChain, ReorgApply, CanReorg
  <1>6. CASE b \notin {parent, child}
    <2>1. proposals[b] = "imported" /\ b # orphan
      BY <1>4, <1>6
    <2>2. OnChain(chain, b)
      BY <2>1 DEF ImportedIsOnChain
    <2>3. Height[b] \in 1 .. (Len(chain) - 1)
      BY <1>1, <1>2, <2>1, <2>2, BlocksAssumption DEF OnChain
    <2> QED  BY <1>1, <1>2, <2>2, <2>3 DEF OnChain
  <1> QED  BY <1>5, <1>6

(* What proposals says is imported, a step finds or puts on the chain. *)
LEMMA ImportedStep ==
    ASSUME TypeOK, ImportedIsOnChain, [Next]_vars
    PROVE  ImportedIsOnChain'
  <1> SUFFICES ASSUME NEW b \in Blocks, proposals'[b] = "imported"
               PROVE  OnChain(chain', b)
    BY DEF ImportedIsOnChain
  <1>0. ASSUME UNCHANGED chain, proposals[b] = "imported"
        PROVE  OnChain(chain', b)
    BY <1>0, StaysOnChain DEF ImportedIsOnChain
  <1>1. CASE UNCHANGED << chain, proposals >>
    BY <1>0, <1>1
  <1>2. ASSUME NEW d \in Blocks, Handler(d)  PROVE OnChain(chain', b)
    <2>1. CASE ProposeCommit(d)
      <3>1. proposals[b] = "imported" /\ UNCHANGED chain
        BY <2>1 DEF ProposeCommit, ProposeRequest, Final, TypeOK
      <3> QED  BY <1>0, <3>1
    <2>2. CASE PromoteAfterSync(d)
      <3>1. proposals[b] = "imported" /\ UNCHANGED chain
        BY <2>2, PromotedKeepsFinal DEF PromoteAfterSync, Final
      <3> QED  BY <1>0, <3>1
    <2>3. CASE FinalizeCommit(d)
      <3>1. CASE FinalizeFinds(d)
        <4>1. proposals[b] = "imported" /\ UNCHANGED chain
          BY <3>1 DEF FinalizeFinds, TypeOK
        <4> QED  BY <1>0, <4>1
      <3>2. CASE Extends(chain, d) /\ FinalizeImports(d)
        BY <3>2, FinalizeImportsKeeps
      <3> QED  BY <1>1, <2>3, <3>1, <3>2 DEF FinalizeCommit
    <2>4. CASE MineLocal(d)
      <3>1. Extends(chain, d) /\ chain' = Append(chain, d)
        BY <2>4 DEF MineLocal
      <3>2. CASE b = d
        BY <3>1, <3>2, AppendedIsOnChain
      <3>3. CASE b # d
        BY <2>4, <3>1, <3>3, StaysOnChain DEF MineLocal, ImportedIsOnChain, TypeOK
      <3> QED  BY <3>2, <3>3
    <2>5. CASE ~ProposeCommit(d) /\ ~PromoteAfterSync(d) /\ ~FinalizeCommit(d) /\ ~MineLocal(d)
      BY <1>1, <1>2, <2>5 DEF Handler, ProposeCheck, FinalizeCheck, HeaderCheck, HeaderCommit,
         VoteCheck, Open
    <2> QED  BY <2>1, <2>2, <2>3, <2>4, <2>5
  <1>3. CASE VoteCommit
    <2>1. PICK r \in VoteRequest \cap inflight :
            VoteRecorded(r) \/ VoteFinalizes(r) \/ VoteRejects(r) \/ VoteRolledBack(r)
      BY <1>3 DEF VoteCommit
    <2>2. r.block \in Blocks
      BY <2>1 DEF VoteRequest
    <2>3. CASE VoteFinalizes(r)
      <3>1. CASE FinalizeFinds(r.block)
        <4>1. proposals[b] = "imported" /\ UNCHANGED chain
          BY <2>2, <3>1 DEF FinalizeFinds, TypeOK
        <4> QED  BY <1>0, <4>1
      <3>2. CASE Extends(chain, r.block) /\ FinalizeImports(r.block)
        BY <2>2, <3>2, FinalizeImportsKeeps
      <3> QED  BY <2>3, <3>1, <3>2 DEF VoteFinalizes, Importable
    <2>4. CASE VoteRejects(r)
      <3>1. proposals[b] = "imported" /\ UNCHANGED chain
        BY <2>2, <2>4 DEF VoteRejects, TypeOK
      <3> QED  BY <1>0, <3>1
    <2> QED  BY <1>1, <2>1, <2>3, <2>4 DEF VoteRecorded, VoteRolledBack
  <1>4. CASE Replay
    <2>1. CASE ReplayStart
      <3>1. (proposals[b] = "imported" \/ OnChain(chain, b)) /\ UNCHANGED chain
        BY <2>1 DEF ReplayStart, Normalised
      <3> QED  BY <1>0, <3>1
    <2>2. ASSUME NEW d \in Blocks, ReplayImports(d)  PROVE OnChain(chain', b)
      <3>1. Extends(chain, d) /\ chain' = Append(chain, d)
        BY <2>2 DEF ReplayImports, Importable
      <3>2. CASE b = d
        BY <3>1, <3>2, AppendedIsOnChain
      <3>3. CASE b # d
        <4>1. Promoted(proposals, chain') \in [Blocks -> ProposalStatus]
          BY PromotedType DEF TypeOK
        <4>2. Promoted(proposals, chain')[b] = "imported"
          BY <2>2, <3>3, <4>1 DEF ReplayImports
        <4>3. proposals[b] = "imported"
          BY <4>2, PromotedKeepsFinal DEF Final
        <4> QED  BY <3>1, <4>3, StaysOnChain DEF ImportedIsOnChain
      <3> QED  BY <3>2, <3>3
    <2> QED  BY <1>1, <1>4, <2>1, <2>2 DEF Replay, ReplayRow, ReplaySkips, ReplayFails,
               ReplayCommit, ReplayRecord
  <1>5. CASE \E parent, child \in Blocks : ReorgApply(parent, child)
    BY <1>5, ReorgKeepsImported
  <1>6. CASE ReplayStatusRead \/ (\E v \in Validators : ValidatorToggles(v)) \/ Crash
    BY <1>1, <1>6 DEF ReplayStatusRead, ValidatorToggles, Crash
  <1>7. CASE UNCHANGED vars
    BY <1>1, <1>7 DEF vars
  <1> QED  BY <1>2, <1>3, <1>4, <1>5, <1>6, <1>7 DEF Next

(* A proposal is imported only while its block is on the chain: no reorg,   *)
(* late vote, stale request or replay leaves the word behind.               *)
THEOREM ImportedStaysOnChain == Spec => []ImportedIsOnChain
  <1>1. Init => ImportedIsOnChain
    BY DEF Init, ImportedIsOnChain
  <1> QED  BY <1>1, ImportedStep, TypeCorrect, PTL DEF Spec

-------------------------------------------------------------------------------
(* What is finalized, known or imported is settled.                        *)

LEMMA NewRequest ==
    ASSUME TypeOK, HeaderIsSettled, [Next]_vars, NEW r \in inflight', r \notin inflight,
           \/ r.kind = "finalize" /\ r.exists
           \/ r.kind = "header" /\ r.status \in { "known", "imported" }
    PROVE  r.block \in Blocks /\ Settled(r.block)
  <1>1. ASSUME NEW b \in Blocks, Handler(b)
        PROVE  r.block \in Blocks /\ Settled(r.block)
    <2>1. CASE ProposeCheck(b)
      <3>1. PICK status \in { "pending", "pending_missing_ancestors", "known" } :
              inflight' = inflight \cup {[kind |-> "propose", block |-> b, status |-> status]}
        BY <2>1 DEF ProposeCheck, Open
      <3> QED  BY <3>1
    <2>2. CASE ProposeCommit(b)
      <3>1. r = [kind |-> "sync", block |-> b]
        BY <2>2 DEF ProposeCommit
      <3> QED  BY <3>1
    <2>3. CASE FinalizeCheck(b)
      <3>1. r = [kind |-> "finalize", block |-> b, exists |-> OnChain(chain, b)]
        BY <2>3 DEF FinalizeCheck, Open
      <3> QED  BY <3>1 DEF Settled
    <2>4. CASE HeaderCheck(b)
      <3>1. PICK status \in HeaderStatus \ {"none"} :
              /\ \/ OnChain(chain, b)
                 \/ status = headers[b]
                 \/ status \in { "pending_replay", "pending_missing_ancestors" }
              /\ inflight' = inflight \cup {[kind |-> "header", block |-> b, status |-> status]}
        BY <2>4 DEF HeaderCheck, Open
      <3>2. r = [kind |-> "header", block |-> b, status |-> status]
        BY <3>1
      <3> QED  BY <3>1, <3>2 DEF HeaderIsSettled, Settled
    <2>5. ASSUME NEW v \in Validators, NEW vote \in { "approve", "reject" },
                 VoteCheck(v, b, vote)
          PROVE  r.block \in Blocks /\ Settled(r.block)
      <3>1. r = [kind |-> "vote", block |-> b, validator |-> v, vote |-> vote]
        BY <2>5 DEF VoteCheck, Open
      <3> QED  BY <3>1
    <2>6. CASE PromoteAfterSync(b) \/ FinalizeCommit(b) \/ HeaderCommit(b) \/ MineLocal(b)
      BY <2>6 DEF PromoteAfterSync, FinalizeCommit, HeaderCommit, MineLocal, Close
    <2> QED  BY <1>1, <2>1, <2>2, <2>3, <2>4, <2>5, <2>6 DEF Handler
  <1>2. CASE VoteCommit
    BY <1>2 DEF VoteCommit, VoteRecorded, VoteFinalizes, VoteRejects, VoteRolledBack, Close
  <1>3. CASE Replay
    BY <1>3 DEF Replay, ReplayRow, ReplayStart, ReplayImports, ReplaySkips, ReplayFails, NextRow,
       ReplayCommit, ReplayRecord
  <1>4. CASE \E parent, child \in Blocks : ReorgApply(parent, child)
    BY <1>4 DEF ReorgApply
  <1>5. CASE ReplayStatusRead \/ (\E v \in Validators : ValidatorToggles(v)) \/ Crash
    BY <1>5 DEF ReplayStatusRead, ValidatorToggles, Crash
  <1>6. CASE UNCHANGED vars
    BY <1>6 DEF vars
  <1> QED  BY <1>1, <1>2, <1>3, <1>4, <1>5, <1>6 DEF Next

LEMMA RequestsStep ==
    ASSUME TypeOK, HeaderIsSettled, RequestsSettled, [Next]_vars
    PROVE  RequestsSettled'
  <1> SUFFICES ASSUME NEW r \in inflight',
                      \/ r.kind = "finalize" /\ r.exists
                      \/ r.kind = "header" /\ r.status \in { "known", "imported" }
               PROVE  Settled(r.block)'
    BY DEF RequestsSettled
  <1>1. CASE r \in inflight
    <2>1. r.block \in Blocks
      BY <1>1 DEF TypeOK, Request, ProposeRequest, SyncRequest, VoteRequest, FinalizeRequest,
         HeaderRequest
    <2>2. Settled(r.block)
      BY <1>1 DEF RequestsSettled
    <2> QED  BY <2>1, <2>2, StaysSettled
  <1>2. CASE r \notin inflight
    <2>1. r.block \in Blocks /\ Settled(r.block)
      BY <1>2, NewRequest
    <2> QED  BY <2>1, StaysSettled
  <1> QED  BY <1>1, <1>2

LEMMA NewFinalized ==
    ASSUME TypeOK, RequestsSettled, [Next]_vars,
           NEW b \in Blocks, proposals'[b] = "finalized", proposals[b] # "finalized"
    PROVE  Settled(b)
  <1>1. ASSUME NEW d \in Blocks, Handler(d)  PROVE Settled(b)
    <2>1. CASE ProposeCommit(d)
      BY <2>1 DEF ProposeCommit, ProposeRequest, Final, TypeOK
    <2>2. CASE PromoteAfterSync(d)
      BY <2>2, PromotedKeepsFinal DEF PromoteAfterSync, Final
    <2>3. CASE FinalizeCommit(d)
      <3>1. PICK r \in FinalizeRequest \cap inflight :
              /\ r.block = d
              /\ \/ r.exists /\ FinalizeFinds(d)
                 \/ FinalizeImports(d)
                 \/ UNCHANGED proposals
        BY <2>3 DEF FinalizeCommit
      <3>2. CASE r.exists /\ FinalizeFinds(d)
        <4>1. b = d
          BY <3>2 DEF FinalizeFinds, TypeOK
        <4> QED  BY <3>1, <3>2, <4>1 DEF RequestsSettled, FinalizeRequest
      <3>3. ~FinalizeImports(d)
        <4>1. Promoted(proposals, chain') \in [Blocks -> ProposalStatus]
          BY PromotedType DEF TypeOK
        <4> QED  BY <4>1, PromotedKeepsFinal DEF FinalizeImports, Final
      <3> QED  BY <3>1, <3>2, <3>3
    <2>4. CASE MineLocal(d)
      BY <2>4 DEF MineLocal, TypeOK
    <2>5. CASE ~ProposeCommit(d) /\ ~PromoteAfterSync(d) /\ ~FinalizeCommit(d) /\ ~MineLocal(d)
      BY <1>1, <2>5 DEF Handler, ProposeCheck, FinalizeCheck, HeaderCheck, HeaderCommit,
         VoteCheck, Open
    <2> QED  BY <2>1, <2>2, <2>3, <2>4, <2>5
  <1>2. CASE VoteCommit
    <2>1. PICK r \in VoteRequest \cap inflight :
            VoteRecorded(r) \/ VoteFinalizes(r) \/ VoteRejects(r) \/ VoteRolledBack(r)
      BY <1>2 DEF VoteCommit
    <2>2. r.block \in Blocks
      BY <2>1 DEF VoteRequest
    <2>3. CASE VoteFinalizes(r)
      <3>1. CASE OnChain(chain, r.block) /\ FinalizeFinds(r.block)
        <4>1. b = r.block
          BY <2>2, <3>1 DEF FinalizeFinds, TypeOK
        <4> QED  BY <3>1, <4>1 DEF Settled
      <3>2. ~FinalizeImports(r.block)
        <4>1. Promoted(proposals, chain') \in [Blocks -> ProposalStatus]
          BY PromotedType DEF TypeOK
        <4> QED  BY <2>2, <4>1, PromotedKeepsFinal DEF FinalizeImports, Final
      <3> QED  BY <2>3, <3>1, <3>2 DEF VoteFinalizes
    <2>4. CASE VoteRejects(r)
      BY <2>2, <2>4 DEF VoteRejects, TypeOK
    <2> QED  BY <2>1, <2>3, <2>4 DEF VoteRecorded, VoteRolledBack
  <1>3. CASE Replay
    <2>1. CASE ReplayStart
      BY <2>1 DEF ReplayStart, Normalised
    <2>2. ASSUME NEW d \in Blocks, ReplayImports(d)  PROVE Settled(b)
      <3>1. Promoted(proposals, chain') \in [Blocks -> ProposalStatus]
        BY PromotedType DEF TypeOK
      <3>2. Promoted(proposals, chain')[b] = "finalized"
        BY <2>2, <3>1 DEF ReplayImports
      <3> QED  BY <3>2, PromotedKeepsFinal DEF Final
    <2> QED  BY <1>3, <2>1, <2>2 DEF Replay, ReplayRow, ReplaySkips, ReplayFails, ReplayCommit,
               ReplayRecord
  <1>4. ASSUME NEW parent \in Blocks, NEW child \in Blocks, ReorgApply(parent, child)
        PROVE  Settled(b)
    <2> DEFINE marked == [d \in Blocks |->
                            IF proposals[d] = "none" THEN "none"
                            ELSE IF d = chain[Len(chain)] THEN "rejected"
                            ELSE IF d \in {parent, child} /\ proposals[d] # "rejected"
                            THEN "imported" ELSE proposals[d]]
    <2>1. proposals' = Promoted(marked, chain')
      BY <1>4 DEF ReorgApply
    <2>2. marked[b] = "finalized"
      <3> HIDE DEF marked
      <3> QED  BY <2>1, PromotedKeepsFinal DEF Final
    <2> QED  BY <2>2
  <1>5. CASE ReplayStatusRead \/ (\E v \in Validators : ValidatorToggles(v)) \/ Crash
    BY <1>5 DEF ReplayStatusRead, ValidatorToggles, Crash
  <1>6. CASE UNCHANGED vars
    BY <1>6 DEF vars
  <1> QED  BY <1>1, <1>2, <1>3, <1>4, <1>5, <1>6 DEF Next

LEMMA NewKnownHeader ==
    ASSUME TypeOK, RequestsSettled, [Next]_vars, NEW b \in Blocks,
           headers'[b] \in { "known", "imported" }, headers[b] \notin { "known", "imported" }
    PROVE  Settled(b)'
  <1>1. ASSUME NEW d \in Blocks, Handler(d)  PROVE Settled(b)'
    <2>1. CASE HeaderCommit(d)
      <3>1. PICK r \in HeaderRequest \cap inflight :
              r.block = d /\ headers' = [headers EXCEPT ![d] = r.status]
        BY <2>1 DEF HeaderCommit
      <3>2. b = d /\ r.status \in { "known", "imported" }
        BY <3>1 DEF TypeOK
      <3>3. Settled(b)
        BY <3>1, <3>2 DEF RequestsSettled, HeaderRequest
      <3> QED  BY <3>3, StaysSettled
    <2>2. CASE ~HeaderCommit(d)
      BY <1>1, <2>2 DEF Handler, ProposeCheck, ProposeCommit, PromoteAfterSync, FinalizeCheck,
         FinalizeCommit, HeaderCheck, MineLocal, VoteCheck, Open
    <2> QED  BY <2>1, <2>2
  <1>2. CASE VoteCommit
    BY <1>2 DEF VoteCommit, VoteRecorded, VoteFinalizes, VoteRejects, VoteRolledBack
  <1>3. CASE Replay
    <2>1. ASSUME NEW d \in Blocks, ReplayImports(d)  PROVE Settled(b)'
      <3>1. b = d /\ Extends(chain, d) /\ chain' = Append(chain, d)
        BY <2>1 DEF ReplayImports, Importable, TypeOK
      <3> QED  BY <3>1, AppendedIsOnChain
    <2>2. ASSUME NEW d \in Blocks, ReplaySkips(d)  PROVE Settled(b)'
      <3>1. b = d /\ OnChain(chain, d)
        BY <2>2 DEF ReplaySkips, TypeOK
      <3>2. Settled(b)
        BY <3>1 DEF Settled
      <3> QED  BY <3>2, StaysSettled
    <2>3. ASSUME NEW d \in Blocks, ReplayFails(d)  PROVE Settled(b)'
      BY <2>3 DEF ReplayFails, TypeOK
    <2> QED  BY <1>3, <2>1, <2>2, <2>3 DEF Replay, ReplayRow, ReplayStart, ReplayCommit,
               ReplayRecord
  <1>4. ASSUME NEW parent \in Blocks, NEW child \in Blocks, ReorgApply(parent, child)
        PROVE  Settled(b)'
    <2>1. /\ Len(chain) \in Nat \ {0}
          /\ chain' \in Seq(Blocks)
          /\ Len(chain') = Len(chain) + 1
          /\ chain'[Len(chain)] = parent
          /\ chain'[Len(chain) + 1] = child
          /\ Height[parent] = Len(chain)
      BY <1>4, ReorgShape DEF ReorgApply
    <2>2. b \in {parent, child}
      BY <1>4 DEF ReorgApply, TypeOK
    <2>3. DOMAIN chain' = 1 .. (Len(chain) + 1)
      BY <2>1
    <2> QED  BY <1>4, <2>1, <2>2, <2>3 DEF ReorgApply, CanReorg, Settled, OnChain
  <1>5. CASE ReplayStatusRead \/ (\E v \in Validators : ValidatorToggles(v)) \/ Crash
    BY <1>5 DEF ReplayStatusRead, ValidatorToggles, Crash
  <1>6. CASE UNCHANGED vars
    BY <1>6 DEF vars
  <1> QED  BY <1>1, <1>2, <1>3, <1>4, <1>5, <1>6 DEF Next

(* The three statements hold together: a stale request is what could write  *)
(* a status the chain does not back.                                        *)
Decided == FinalizedIsSettled /\ HeaderIsSettled /\ RequestsSettled

LEMMA DecidedStep ==
    ASSUME TypeOK, Decided, [Next]_vars
    PROVE  Decided'
  <1>1. RequestsSettled'
    BY RequestsStep DEF Decided
  <1>2. ASSUME NEW b \in Blocks, proposals'[b] = "finalized"
        PROVE  Settled(b)'
    BY <1>2, NewFinalized, StaysSettled DEF Decided, FinalizedIsSettled
  <1>3. ASSUME NEW b \in Blocks, headers'[b] \in { "known", "imported" }
        PROVE  Settled(b)'
    BY <1>3, NewKnownHeader, StaysSettled DEF Decided, HeaderIsSettled
  <1>4. FinalizedIsSettled'
    BY <1>2 DEF FinalizedIsSettled
  <1>5. HeaderIsSettled'
    BY <1>3 DEF HeaderIsSettled
  <1> QED  BY <1>1, <1>4, <1>5 DEF Decided

LEMMA DecidedAlways == Spec => []Decided
  <1>1. Init => Decided
    BY DEF Init, Decided, FinalizedIsSettled, HeaderIsSettled, RequestsSettled
  <1> QED  BY <1>1, DecidedStep, TypeCorrect, PTL DEF Spec

(* No finalized proposal waits for an import: its height is taken.          *)
THEOREM FinalizedStaysSettled == Spec => []FinalizedIsSettled
  BY DecidedAlways, PTL DEF Decided

(* No header leaves the replay queue before its height is taken, stale      *)
(* header handlers included.                                                *)
THEOREM HeaderStaysSettled == Spec => []HeaderIsSettled
  BY DecidedAlways, PTL DEF Decided

(* What a handler read of a taken height before the lock holds after it.    *)
THEOREM RequestsStaySettled == Spec => []RequestsSettled
  BY DecidedAlways, PTL DEF Decided

-------------------------------------------------------------------------------
(* What a rejection and a quorum are worth.                                *)

LEMMA PromotedKeepsOthers ==
    ASSUME NEW p, NEW c, NEW b \in Blocks, p[b] # "pending_missing_ancestors"
    PROVE  Promoted(p, c)[b] = p[b]
  BY DEF Promoted

LEMMA FinalizeImportsBrings ==
    ASSUME TypeOK, NEW d \in Blocks, Extends(chain, d), FinalizeImports(d),
           NEW b \in Blocks, proposals[b] = "rejected", proposals'[b] # "rejected"
    PROVE  OnChain(chain', b)
  <1>1. Promoted(proposals, chain') \in [Blocks -> ProposalStatus]
    BY PromotedType DEF TypeOK
  <1>2. Promoted(proposals, chain')[b] = "rejected"
    BY PromotedKeepsOthers
  <1>3. b = d
    BY <1>1, <1>2 DEF FinalizeImports
  <1> QED  BY <1>3, AppendedIsOnChain DEF FinalizeImports

LEMMA RejectedStep ==
    ASSUME TypeOK, [Next]_vars, NEW b \in Blocks,
           proposals[b] = "rejected", proposals'[b] # "rejected"
    PROVE  OnChain(chain', b) \/ ReadOnChain(b)
  <1>1. CASE UNCHANGED proposals
    BY <1>1
  <1>2. ASSUME NEW d \in Blocks, Handler(d)
        PROVE  OnChain(chain', b) \/ ReadOnChain(b)
    <2>1. CASE ProposeCommit(d)
      BY <2>1 DEF ProposeCommit, TypeOK
    <2>2. CASE PromoteAfterSync(d)
      BY <2>2, PromotedKeepsOthers DEF PromoteAfterSync
    <2>3. CASE FinalizeCommit(d)
      <3>1. PICK r \in FinalizeRequest \cap inflight :
              /\ r.block = d
              /\ \/ r.exists /\ FinalizeFinds(d)
                 \/ ~r.exists /\ Extends(chain, d) /\ FinalizeImports(d)
                 \/ UNCHANGED << chain, proposals >>
        BY <2>3 DEF FinalizeCommit
      <3>2. CASE r.exists /\ FinalizeFinds(d)
        <4>1. b = d
          BY <3>2 DEF FinalizeFinds, TypeOK
        <4>2. r.kind = "finalize"
          BY <3>1 DEF FinalizeRequest
        <4> QED  BY <3>1, <3>2, <4>1, <4>2 DEF ReadOnChain
      <3>3. CASE Extends(chain, d) /\ FinalizeImports(d)
        BY <3>3, FinalizeImportsBrings
      <3> QED  BY <1>1, <3>1, <3>2, <3>3
    <2>4. CASE MineLocal(d)
      <3>1. b = d
        BY <2>4 DEF MineLocal, TypeOK
      <3> QED  BY <2>4, <3>1, AppendedIsOnChain DEF MineLocal
    <2>5. CASE ~ProposeCommit(d) /\ ~PromoteAfterSync(d) /\ ~FinalizeCommit(d) /\ ~MineLocal(d)
      BY <1>1, <1>2, <2>5 DEF Handler, ProposeCheck, FinalizeCheck, HeaderCheck, HeaderCommit,
         VoteCheck, Open
    <2> QED  BY <2>1, <2>2, <2>3, <2>4, <2>5
  <1>3. CASE VoteCommit
    <2>1. PICK r \in VoteRequest \cap inflight :
            VoteRecorded(r) \/ VoteFinalizes(r) \/ VoteRejects(r) \/ VoteRolledBack(r)
      BY <1>3 DEF VoteCommit
    <2>2. r.block \in Blocks
      BY <2>1 DEF VoteRequest
    <2>3. CASE VoteFinalizes(r)
      <3>1. CASE Extends(chain, r.block) /\ FinalizeImports(r.block)
        BY <2>2, <3>1, FinalizeImportsBrings
      <3>2. CASE OnChain(chain, r.block) /\ FinalizeFinds(r.block)
        <4>1. b = r.block
          BY <2>2, <3>2 DEF FinalizeFinds, TypeOK
        <4> QED  BY <3>2, <4>1 DEF FinalizeFinds
      <3> QED  BY <2>3, <3>1, <3>2 DEF VoteFinalizes, Importable
    <2>4. CASE VoteRejects(r)
      BY <2>2, <2>4 DEF VoteRejects, TypeOK
    <2> QED  BY <1>1, <2>1, <2>3, <2>4 DEF VoteRecorded, VoteRolledBack
  <1>4. CASE Replay
    <2>1. CASE ReplayStart
      BY <2>1 DEF ReplayStart, Normalised
    <2>2. ASSUME NEW d \in Blocks, ReplayImports(d)  PROVE FALSE
      <3>1. Promoted(proposals, chain') \in [Blocks -> ProposalStatus]
        BY PromotedType DEF TypeOK
      <3>2. Promoted(proposals, chain')[b] = "rejected"
        BY PromotedKeepsOthers
      <3> QED  BY <2>2, <3>1, <3>2 DEF ReplayImports
    <2> QED  BY <1>1, <1>4, <2>1, <2>2 DEF Replay, ReplayRow, ReplaySkips, ReplayFails,
               ReplayCommit, ReplayRecord
  <1>5. CASE \E parent, child \in Blocks : ReorgApply(parent, child)
    <2>1. PICK parent \in Blocks, child \in Blocks : ReorgApply(parent, child)
      BY <1>5
    <2> DEFINE orphan == chain[Len(chain)]
               marked == [d \in Blocks |->
                            IF proposals[d] = "none" THEN "none"
                            ELSE IF d = orphan THEN "rejected"
                            ELSE IF d \in {parent, child} /\ proposals[d] # "rejected"
                            THEN "imported" ELSE proposals[d]]
    <2>2. proposals' = Promoted(marked, chain')
      BY <2>1 DEF ReorgApply
    <2>3. marked[b] = "rejected"
      OBVIOUS
    <2> HIDE DEF marked
    <2> QED  BY <2>2, <2>3, PromotedKeepsOthers
  <1>6. CASE ReplayStatusRead \/ (\E v \in Validators : ValidatorToggles(v)) \/ Crash
    BY <1>1, <1>6 DEF ReplayStatusRead, ValidatorToggles, Crash
  <1>7. CASE UNCHANGED vars
    BY <1>1, <1>7 DEF vars
  <1> QED  BY <1>2, <1>3, <1>4, <1>5, <1>6, <1>7 DEF Next

(* A proposal that a quorum or a reorg rejected comes back only with its    *)
(* block on the chain, or by a finalize request that had found it there.    *)
THEOREM RejectionStands == Spec => RejectedStaysOut
  <1>1. TypeOK /\ [Next]_vars
          => [\A b \in Blocks : proposals[b] = "rejected" /\ proposals'[b] # "rejected"
                                  => OnChain(chain', b) \/ ReadOnChain(b)]_vars
    BY RejectedStep
  <1> QED  BY <1>1, TypeCorrect, PTL DEF Spec, RejectedStaysOut

(* The rows of a batch are headers this node was sent.                     *)
BatchIsAnnounced == \A b \in replay.todo : headers[b] # "none"

LEMMA AnnouncedStep ==
    ASSUME TypeOK, BatchIsAnnounced, [Next]_vars
    PROVE  BatchIsAnnounced'
  <1>1. CASE UNCHANGED << replay, headers >>
    BY <1>1 DEF BatchIsAnnounced
  <1>2. ASSUME NEW d \in Blocks, Handler(d)  PROVE BatchIsAnnounced'
    <2>1. CASE HeaderCommit(d)
      <3>1. PICK s \in HeaderStatus \ {"none"} :
              headers' = [headers EXCEPT ![d] = s] /\ UNCHANGED replay
        BY <2>1 DEF HeaderCommit, HeaderRequest, Close
      <3> QED  BY <3>1 DEF BatchIsAnnounced, TypeOK
    <2>2. CASE ~HeaderCommit(d)
      BY <1>1, <1>2, <2>2 DEF Handler, ProposeCheck, ProposeCommit, PromoteAfterSync,
         FinalizeCheck, FinalizeCommit, HeaderCheck, MineLocal, VoteCheck, Open, Close
    <2> QED  BY <2>1, <2>2
  <1>3. CASE VoteCommit
    BY <1>1, <1>3 DEF VoteCommit, VoteRecorded, VoteFinalizes, VoteRejects, VoteRolledBack, Close
  <1>4. CASE Replay
    <2>1. CASE ReplayStart
      <3>1. UNCHANGED headers /\ replay'.todo \subseteq QueuedHeaders
        BY <2>1 DEF ReplayStart, HeaderBatches, Batch
      <3> QED  BY <3>1 DEF BatchIsAnnounced, QueuedHeaders, QueuedHeader
    <2>2. ASSUME NEW d \in Blocks, ReplayImports(d) \/ ReplaySkips(d) \/ ReplayFails(d)
          PROVE  BatchIsAnnounced'
      <3>1. PICK s \in HeaderStatus \ {"none"} : headers' = [headers EXCEPT ![d] = s]
        BY <2>2 DEF ReplayImports, ReplaySkips, ReplayFails, HeaderStatus
      <3>2. replay'.todo \subseteq replay.todo
        BY <2>2 DEF ReplayImports, ReplaySkips, ReplayFails, Batch
      <3> QED  BY <3>1, <3>2 DEF BatchIsAnnounced, TypeOK
    <2>3. CASE ReplayCommit \/ ReplayRecord
      <3>1. replay'.todo = {}
        BY <2>3 DEF ReplayCommit, ReplayRecord, ReplayIdle, Batch
      <3> QED  BY <3>1 DEF BatchIsAnnounced
    <2> QED  BY <1>4, <2>1, <2>2, <2>3 DEF Replay, ReplayRow
  <1>5. ASSUME NEW parent \in Blocks, NEW child \in Blocks, ReorgApply(parent, child)
        PROVE  BatchIsAnnounced'
    BY <1>5 DEF ReorgApply, BatchIsAnnounced, TypeOK
  <1>6. CASE Crash
    BY <1>6 DEF Crash, ReplayIdle, Batch, BatchIsAnnounced
  <1>7. CASE ReplayStatusRead \/ (\E v \in Validators : ValidatorToggles(v)) \/ UNCHANGED vars
    BY <1>1, <1>7 DEF ReplayStatusRead, ValidatorToggles, vars
  <1> QED  BY <1>2, <1>3, <1>4, <1>5, <1>6, <1>7 DEF Next

(* Only the block a step appends is new on the chain. *)
LEMMA OnlyAppended ==
    ASSUME TypeOK, NEW d \in Blocks, chain' = Append(chain, d),
           NEW b \in Blocks, ~OnChain(chain, b), OnChain(chain', b)
    PROVE  b = d
  <1>1. /\ DOMAIN chain' = 1 .. (Len(chain) + 1) /\ DOMAIN chain = 1 .. Len(chain)
        /\ Len(chain) \in Nat
        /\ \A h \in 1 .. Len(chain) : chain'[h] = chain[h]
        /\ chain'[Len(chain) + 1] = d
    BY DEF TypeOK
  <1> QED  BY <1>1 DEF OnChain

LEMMA QuorumStep ==
    ASSUME TypeOK, BatchIsAnnounced, [Next]_vars,
           NEW b \in Blocks, ~OnChain(chain, b), OnChain(chain', b)
    PROVE  \/ VouchedFor(b) \/ ReadQuorum(b)
           \/ Cardinality(Approvers(votes', b)) >= RequiredApprovals
  <1>1. CASE UNCHANGED chain
    BY <1>1
  <1>2. ASSUME NEW d \in Blocks, Handler(d)  PROVE VouchedFor(b) \/ ReadQuorum(b)
    <2>1. CASE MineLocal(d)
      BY <2>1, OnlyAppended DEF MineLocal, VouchedFor
    <2>2. CASE FinalizeCommit(d)
      <3>1. PICK r \in FinalizeRequest \cap inflight :
              r.block = d /\ (FinalizeFinds(d) \/ FinalizeImports(d) \/ UNCHANGED chain)
        BY <2>2 DEF FinalizeCommit
      <3>2. b = d
        BY <1>1, <3>1, OnlyAppended DEF FinalizeFinds, FinalizeImports
      <3> QED  BY <3>1, <3>2 DEF ReadQuorum, FinalizeRequest
    <2>3. CASE ~MineLocal(d) /\ ~FinalizeCommit(d)
      BY <1>1, <1>2, <2>3 DEF Handler, ProposeCheck, ProposeCommit, PromoteAfterSync,
         FinalizeCheck, HeaderCheck, HeaderCommit, VoteCheck, Open
    <2> QED  BY <2>1, <2>2, <2>3
  <1>3. CASE VoteCommit
    <2>1. PICK r \in VoteRequest \cap inflight :
            VoteRecorded(r) \/ VoteFinalizes(r) \/ VoteRejects(r) \/ VoteRolledBack(r)
      BY <1>3 DEF VoteCommit
    <2>2. CASE VoteFinalizes(r) /\ FinalizeImports(r.block)
      <3>1. r.block \in Blocks
        BY <2>1 DEF VoteRequest
      <3>2. b = r.block
        BY <2>2, <3>1, OnlyAppended DEF FinalizeImports
      <3> QED  BY <2>2, <3>2 DEF VoteFinalizes, ApprovalQuorum
    <2> QED  BY <1>1, <2>1, <2>2 DEF VoteRecorded, VoteFinalizes, VoteRejects, VoteRolledBack,
               FinalizeFinds
  <1>4. CASE Replay
    <2>1. ASSUME NEW d \in Blocks, ReplayImports(d)  PROVE VouchedFor(b)
      <3>1. b = d
        BY <2>1, OnlyAppended DEF ReplayImports
      <3> QED  BY <2>1, <3>1 DEF ReplayImports, NextRow, BatchIsAnnounced, VouchedFor
    <2> QED  BY <1>1, <1>4, <2>1 DEF Replay, ReplayRow, ReplayStart, ReplaySkips, ReplayFails,
               ReplayCommit, ReplayRecord
  <1>5. ASSUME NEW parent \in Blocks, NEW child \in Blocks, ReorgApply(parent, child)
        PROVE  VouchedFor(b)
    <2>1. /\ Len(chain) \in Nat \ {0}
          /\ chain' \in Seq(Blocks)
          /\ Len(chain') = Len(chain) + 1
          /\ \A h \in 1 .. (Len(chain) - 1) : chain'[h] = chain[h]
          /\ chain'[Len(chain)] = parent
          /\ chain'[Len(chain) + 1] = child
      BY <1>5, ReorgShape DEF ReorgApply
    <2>2. DOMAIN chain' = 1 .. (Len(chain) + 1) /\ DOMAIN chain = 1 .. Len(chain)
      BY <2>1 DEF TypeOK
    <2>3. b \in {parent, child}
      BY <2>1, <2>2 DEF OnChain
    <2>4. child \in Certified /\ Parent[child] = parent
      BY <1>5 DEF ReorgApply, CanReorg
    <2> QED  BY <2>3, <2>4 DEF VouchedFor
  <1>6. CASE ReplayStatusRead \/ (\E v \in Validators : ValidatorToggles(v)) \/ Crash
    BY <1>1, <1>6 DEF ReplayStatusRead, ValidatorToggles, Crash
  <1>7. CASE UNCHANGED vars
    BY <1>1, <1>7 DEF vars
  <1> QED  BY <1>2, <1>3, <1>4, <1>5, <1>6, <1>7 DEF Next

(* No vote, stale or in time, puts a block on the chain without the quorum  *)
(* of that moment: what else gets there was mined here, sent as a header,   *)
(* certified, or finalized by a request that had read a quorum.             *)
THEOREM QuorumStandsBehind == Spec => QuorumBehindVotedBlocks
  <1>1. Init => BatchIsAnnounced
    BY DEF Init, ReplayIdle, Batch, BatchIsAnnounced
  <1>2. TypeOK /\ BatchIsAnnounced /\ [Next]_vars => BatchIsAnnounced'
    BY AnnouncedStep
  <1>3. TypeOK /\ BatchIsAnnounced /\ [Next]_vars
          => [\A b \in Blocks :
                \/ OnChain(chain, b) \/ ~OnChain(chain', b)
                \/ VouchedFor(b) \/ ReadQuorum(b)
                \/ Cardinality(Approvers(votes', b)) >= RequiredApprovals]_vars
    BY QuorumStep
  <1> QED  BY <1>1, <1>2, <1>3, TypeCorrect, PTL DEF Spec, QuorumBehindVotedBlocks
===============================================================================
