------------------------------ MODULE ForkChoice ------------------------------
(***************************************************************************)
(* The order in which app/services/consensus.py ranks block proposals that *)
(* compete for one place in the chain (same height, same previous_hash).   *)
(*                                                                         *)
(* A scored proposal is a record with the fields the sort key of the code  *)
(* reads: status, approval_weight, rejection_weight, approvals,            *)
(* rejections and created_at.  The code breaks the last tie by block_hash; *)
(* created_at is a microsecond timestamp and is modelled by the arrival    *)
(* rank of the proposal, which never ties, so the hash is left out.        *)
(***************************************************************************)
EXTENDS Integers, Sequences

(* consensus.py gives every status it does not name the rank 7. *)
StatusRank(status) ==
    CASE status = "imported"                  -> 0
      [] status = "finalized"                 -> 1
      [] status = "pending"                   -> 4
      [] status = "pending_missing_ancestors" -> 5
      [] OTHER                                -> 7

(* The vote part of the key, which is all that FORK_CHOICE_RULE states. *)
VoteKey(p) ==
    << -p.approval_weight, p.rejection_weight, -p.approvals, p.rejections,
       p.created_at >>

(* The key the code sorts by: the status comes before any vote. *)
SortKey(p) == << StatusRank(p.status) >> \o VoteKey(p)

(* Lexicographic order on integer tuples of the same length. *)
LexLess(s, t) ==
    \E i \in DOMAIN s : /\ s[i] < t[i]
                        /\ \A j \in 1 .. (i - 1) : s[j] = t[j]

(* p is sorted before q. *)
Beats(p, q) == LexLess(SortKey(p), SortKey(q))

(* choices.sort(key=_fork_choice_sort_key); return choices[0]: the set of   *)
(* first elements, empty when there is no candidate.                        *)
Winners(S) == { p \in S : \A q \in S \ {p} : Beats(p, q) }
===============================================================================
