-------------------------- MODULE MCAsyncExecution --------------------------
(***************************************************************************)
(* Small instances of AsyncExecution.  The plans are an empty one, a       *)
(* chain of two steps, and a cycle that the scheduler refuses.             *)
(***************************************************************************)
EXTENDS AsyncExecution

CONSTANTS e1, e2, c1, c2, k1, x, y

MCStepId == 1 .. 2

chain(n) == [steps |-> 1 .. n, dependsOn |-> [i \in 1 .. n |-> 1 .. (i - 1)]]

cycle == [steps |-> 1 .. 2, dependsOn |-> [i \in 1 .. 2 |-> {3 - i}]]

MCPlan == {chain(0), chain(2), cycle}

OneExecution == {e1}
TwoExecutions == {e1, e2}
OneCancel == {c1}
TwoCancels == {c1, c2}
OneKey == {k1}
TwoContents == {x, y}
OneContent == {x}
=============================================================================
