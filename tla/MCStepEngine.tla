---------------------------- MODULE MCStepEngine ----------------------------
(***************************************************************************)
(* One session, as sessions share nothing but the catalog, and a plan of   *)
(* two steps, so that attempts abandoned by one step run on beside the     *)
(* next.                                                                   *)
(***************************************************************************)
EXTENDS StepEngine

CONSTANT s1

OneSession == {s1}

TwoSteps == 1 .. 2

Chain == [steps |-> 1 .. 2, dependsOn |-> <<{}, {1}>>]

\* The supervisor refuses it before any step.
Cycle == [steps |-> 1 .. 1, dependsOn |-> <<{1}>>]

Plans == {Chain, Cycle}

Retryable == {"FAILURE", "TIMEOUT"}
=============================================================================
