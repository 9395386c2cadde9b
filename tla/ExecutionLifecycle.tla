------------------------- MODULE ExecutionLifecycle -------------------------
(***************************************************************************)
(* What the public API promises of one execution: its state only moves     *)
(* forward, it ends CANCELLED only if a cancellation was pending, and its  *)
(* outcome is announced once, after it is settled.                         *)
(***************************************************************************)
EXTENDS ExecutionProtocol

CONSTANT Execution

VARIABLES
    phase,      \* the public state of each execution, "NONE" before it exists
    announced   \* whether its terminal event was published

vars == <<phase, announced>>

Init ==
    /\ phase = [e \in Execution |-> "NONE"]
    /\ announced = [e \in Execution |-> FALSE]

move(e, from, to) ==
    /\ phase[e] \in from
    /\ phase' = [phase EXCEPT ![e] = to]
    /\ UNCHANGED announced

Queue(e)         == move(e, {"NONE"}, "QUEUED")
Admit(e)         == move(e, {"QUEUED"}, "ADMITTED")
Run(e)           == move(e, {"ADMITTED"}, "RUNNING")
RequestCancel(e) == move(e, {"ADMITTED", "RUNNING"}, "CANCELLING")
Complete(e)      == move(e, {"RUNNING", "CANCELLING"}, "COMPLETED")
Fail(e)          == move(e, {"ADMITTED", "RUNNING", "CANCELLING"}, "FAILED")
Cancel(e)        == move(e, {"CANCELLING"}, "CANCELLED")

Announce(e) ==
    /\ phase[e] \in TerminalStates
    /\ announced' = [announced EXCEPT ![e] = TRUE]
    /\ UNCHANGED phase

Next ==
    \E e \in Execution :
        \/ Queue(e) \/ Admit(e) \/ Run(e) \/ RequestCancel(e)
        \/ Complete(e) \/ Fail(e) \/ Cancel(e) \/ Announce(e)

Spec == Init /\ [][Next]_vars
=============================================================================
