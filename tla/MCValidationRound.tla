--------------------------- MODULE MCValidationRound ---------------------------
(* Instances of ValidationRound for TLC: one or two miners that may be   *)
(* given one or two tasks.                                                 *)
EXTENDS ValidationRound

CONSTANTS m1, m2, v1, v2, v3, f1, f2, genesis

NoTasks == {}
OneTask == {<<m1, 1>>}
TwoTries == {<<m1, 1>>, <<m1, 2>>}
OneTaskEach == {<<m1, 1>>, <<m2, 1>>}
ThreeTasks == {<<m1, 1>>, <<m1, 2>>, <<m2, 1>>}
=============================================================================
