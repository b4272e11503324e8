--------------------------- MODULE MCBlockExecution ---------------------------
(***************************************************************************)
(* NodeAccounts in scenes.  In the books the treasury and what wallets     *)
(* sign meet in the blocks only, so each has a scene with the tasks and    *)
(* the chain.  The reserve is set up three times: for its signers, for the *)
(* races of an account, and, activated already, for those of jobs.         *)
(***************************************************************************)
EXTENDS NodeAccounts

CONSTANTS j1, j2, s1, s2, q1, q2,
          x1, x2, w1, y1, alice, bob, minerW, t1, t2, p, c

(* alice can pay for x1 or x2, not for both; y1 and w1 have one nonce and    *)
(* the foreign block c carries y1.                                         *)
AllTxs    == {x1, x2, w1, y1}
ByFee     == << y1, x2, w1, x1 >>
TxSender  == x1 :> alice @@ x2 :> alice @@ w1 :> bob    @@ y1 :> bob
TxTo      == x1 :> bob   @@ x2 :> bob   @@ w1 :> alice  @@ y1 :> minerW
TxNonce   == x1 :> 1     @@ x2 :> 2     @@ w1 :> 1      @@ y1 :> 1
TxAmount  == x1 :> 2     @@ x2 :> 1     @@ w1 :> 1      @@ y1 :> 2
TxFee     == x1 :> 1     @@ x2 :> 1     @@ w1 :> 1      @@ y1 :> 1
Holdings  == alice :> 4  @@ bob :> 3    @@ minerW :> 0
TwoQuarters == 1..2
Parents   == p :> NoBlock @@ c :> p
Carried   == p :> << >> @@ c :> << y1 >>
Producer  == t1 :> minerW @@ t2 :> minerW @@ p :> bob @@ c :> bob

VARIABLE scene

ScenesInit ==
    /\ scene \in {"payments", "treasury", "signers", "accounts", "jobs"}
    /\ Init
    /\ IF scene = "jobs" THEN ScienceActivated ELSE ScienceInit

ScenesNext ==
    /\ UNCHANGED scene
    /\ \/ scene = "payments" /\ OfBooks(MempoolNext \/ TasksNext \/ ChainNext)
       \/ scene = "treasury" /\ OfBooks(TasksNext \/ ChainNext \/ TreasuryNext)
       \/ scene = "signers" /\ OfScience(SignersNext)
       \/ scene = "accounts" /\ OfScience(AccountsNext)
       \/ scene = "jobs" /\ OfScience(WorkNext)
       \/ scene \in {"accounts", "jobs"} /\ OfScience(PostingNext \/ BlocksNext)

ScenesSpec == ScenesInit /\ [][ScenesNext]_<< scene, vars, scienceVars >>

(* The two tasks have one miner, the jobs are alike, and no scene has both:  *)
(* one permutation swaps either.                                           *)
Swap  == t1 :> t2 @@ t2 :> t1 @@ j1 :> j2 @@ j2 :> j1
Alike == {Swap} \cup Permutations(Requests)
===============================================================================
