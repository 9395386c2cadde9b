------------------------------ MODULE EventFeed ------------------------------
(***************************************************************************)
(* What the event stream promises a client: a log per execution that only  *)
(* grows and ends with its terminal event, and a client that comes to know *)
(* its events one after another, without a gap and without a repetition.   *)
(***************************************************************************)
EXTENDS Naturals, Sequences, EventLog

CONSTANTS Execution, Client

VARIABLES
    events,     \* the log of each execution
    known       \* how many events of each log each client has received

vars == <<events, known>>

Init ==
    /\ events = [e \in Execution |-> <<>>]
    /\ known = [c \in Client |-> [e \in Execution |-> 0]]

Publish(e, kind) ==
    /\ ~ terminated(events[e])
    /\ events' = [events EXCEPT ![e] = appended(@, kind)]
    /\ UNCHANGED known

Learn(c, e) ==
    /\ known[c][e] < Len(events[e])
    /\ known' = [known EXCEPT ![c][e] = @ + 1]
    /\ UNCHANGED events

Next ==
    \/ \E e \in Execution, kind \in EventKinds : Publish(e, kind)
    \/ \E c \in Client, e \in Execution : Learn(c, e)

Spec == Init /\ [][Next]_vars
=============================================================================
