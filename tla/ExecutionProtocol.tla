-------------------------- MODULE ExecutionProtocol --------------------------
(***************************************************************************)
(* The public execution protocol: the states of an execution record, the   *)
(* kinds of events of its stream, and the fail-closed projection of the    *)
(* supervisor's internal states onto the public ones.                      *)
(***************************************************************************)

\* States of a public execution record that are final.
TerminalStates == {"COMPLETED", "FAILED", "CANCELLED"}

\* The states this pipeline writes (WAITING is declared and never written).
PublicStates == {"QUEUED", "ADMITTED", "RUNNING", "CANCELLING"} \cup TerminalStates

\* Event kinds that end a stream, and the one that announces each final state.
TerminalKinds == {"EXECUTION_COMPLETED", "EXECUTION_FAILED", "EXECUTION_CANCELLED"}

EventKinds == {"EXECUTION_ACCEPTED", "EXECUTION_ADMITTED", "EXECUTION_STARTED",
               "CANCELLATION_REQUESTED"} \cup TerminalKinds

TerminalKindOf(state) ==
    CASE state = "COMPLETED" -> "EXECUTION_COMPLETED"
      [] state = "CANCELLED" -> "EXECUTION_CANCELLED"
      [] OTHER               -> "EXECUTION_FAILED"

\* The internal states in which the supervisor returns a result.
FinalSessionStates == {"COMPLETED", "FAILED", "CANCELLED", "TIMED_OUT"}

\* Projection of the final internal states; a timeout is reported as a failure.
toPublicState(internal) ==
    IF internal = "TIMED_OUT" THEN "FAILED" ELSE internal

\* How the server-side validation of a typed output ended.
ValidationOutcomes == {"NOT_REQUESTED", "VALID", "INVALID", "NOT_EVALUATED"}
=============================================================================
