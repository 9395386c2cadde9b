----------------------- MODULE MCExecutionSupervisor -----------------------
(***************************************************************************)
(* One session and every plan of up to three steps: each step may depend   *)
(* on any step, itself included, and on step 4, which no plan has.  The    *)
(* plans cover chains, forks, joins, every cycle and unknown dependencies. *)
(***************************************************************************)
EXTENDS ExecutionSupervisor

CONSTANT s1

MCSession == {s1}

MCStepId == 1 .. 3

MCPlan ==
    UNION {[steps : {1 .. n}, dependsOn : [1 .. n -> SUBSET (1 .. 4)]] : n \in 0 .. 3}
=============================================================================
