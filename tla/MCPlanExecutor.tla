--------------------------- MODULE MCPlanExecutor ---------------------------
(***************************************************************************)
(* Two steps, so that a checkpoint may cover some of the work and not all  *)
(* of it, one retry, and two readers that come at different times.         *)
(***************************************************************************)
EXTENDS PlanExecutor

CONSTANTS reader1, reader2

TwoReaders == {reader1, reader2}
=============================================================================
