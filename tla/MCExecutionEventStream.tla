----------------------- MODULE MCExecutionEventStream -----------------------
(***************************************************************************)
(* One client, two executions with streams of up to MaxEvents events, and  *)
(* two connections: enough to lose one in mid-stream and to resume, or to  *)
(* follow both executions at a time and mistake one's cursor for the other. *)
(***************************************************************************)
EXTENDS ExecutionEventStream

CONSTANTS e1, e2, a, n1, n2

TwoExecutions == {e1, e2}
OneClient == {a}
TwoConnections == {n1, n2}

OneOfEach == {"EXECUTION_STARTED", "EXECUTION_COMPLETED"}
=============================================================================
