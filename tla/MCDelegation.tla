---------------------------- MODULE MCDelegation ----------------------------
(***************************************************************************)
(* One run, as a run is resumed by its own tasks only; two tasks to wait   *)
(* for each other, under ids of their own or under the same one.           *)
(***************************************************************************)
EXTENDS Delegation

CONSTANTS r1, t1, t2, d1, d2

OneRun == {r1}
TwoTasks == {t1, t2}
TwoIds == {d1, d2}
=============================================================================
