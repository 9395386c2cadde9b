------------------------ MODULE ExecutionEventStream ------------------------
(***************************************************************************)
(* The event store's subscriptions and the SSE route over them: a client   *)
(* opens GET /v1/executions/:id/events, may lose the connection with what  *)
(* is still on the wire, and opens another one with the cursor of the last *)
(* event it received.  An event is its sequence number in the stream.      *)
(***************************************************************************)
EXTENDS Naturals, Sequences, FiniteSets, SequencesExt, EventLog

CONSTANTS
    Execution,
    Client,
    Connection,     \* the connections that may be opened, each of them once
    Kind,           \* the event kinds a producer appends
    MaxEvents,      \* bound: the most events a producer appends to a stream
    None            \* no execution, no client

ASSUME KindAssumption == Kind \subseteq EventKinds
ASSUME MaxEventsAssumption == MaxEvents \in Nat

VARIABLES
    events,         \* the streams of the event store
    subscribers,    \* the connections whose push function each stream holds
    conn,           \* the connections: the route's locals and the wire
    received        \* the sequence numbers each client has received

vars == <<events, subscribers, conn, received>>

\* The item null that push() queues after a terminal event.
END == 0

NoConnection ==
    [state |-> "idle", client |-> None, execution |-> None, afterSequence |-> 0,
     queue |-> <<>>, wire |-> <<>>]

TypeOK ==
    /\ events \in [Execution -> Seq(EventKinds)]
    /\ subscribers \in [Execution -> SUBSET Connection]
    /\ conn \in [Connection ->
           [state : {"idle", "validated", "streaming", "ended", "refused"} \cup
                    {"goneValidated", "goneStreaming", "goneEnded"},
            client : Client \cup {None}, execution : Execution \cup {None},
            afterSequence : 0 .. MaxEvents, queue : Seq(0 .. MaxEvents),
            wire : Seq(1 .. MaxEvents)]]
    /\ received \in [Client -> [Execution -> Seq(1 .. MaxEvents)]]

Init ==
    /\ events = [e \in Execution |-> <<>>]
    /\ subscribers = [e \in Execution |-> {}]
    /\ conn = [n \in Connection |-> NoConnection]
    /\ received = [c \in Client |-> [e \in Execution |-> <<>>]]

\* Mutant: the replay leaves out the end.
historyOpen(e) == [i \in 1 .. Len(events[e]) |-> i]

\* The history a subscription replays: every event there is, then the end.
history(e) ==
    [i \in 1 .. Len(events[e]) |-> i] \o (IF terminated(events[e]) THEN <<END>> ELSE <<>>)

connected(n) == conn[n].state \in {"validated", "streaming", "ended"}

-----------------------------------------------------------------------------

\* Mutant: the end is pushed before the terminal event.
appendEndFirst(e, kind) ==
    /\ Len(events[e]) < MaxEvents
    /\ ~ terminated(events[e])
    /\ LET ends   == kind \in TerminalKinds
           pushed == (IF ends THEN <<END>> ELSE <<>>) \o <<Len(events[e]) + 1>>
       IN  /\ events' = [events EXCEPT ![e] = appended(@, kind)]
           /\ conn' = [n \in Connection |->
                  IF n \in subscribers[e]
                  THEN [conn[n] EXCEPT !.queue = @ \o pushed] ELSE conn[n]]
           /\ subscribers' = [subscribers EXCEPT ![e] = IF ends THEN {} ELSE @]
    /\ UNCHANGED received

\* Mutant: a stream that has ended takes events.
appendToAny(e, kind) ==
    /\ Len(events[e]) < MaxEvents
    /\ events' = [events EXCEPT ![e] = appended(@, kind)]
    /\ UNCHANGED <<conn, subscribers, received>>

\* append(): store the event and push it to every subscriber; the terminal one
\* pushes the end as well and drops the subscribers of the stream.
append(e, kind) ==
    /\ Len(events[e]) < MaxEvents
    /\ ~ terminated(events[e])
    /\ LET ends   == kind \in TerminalKinds
           pushed == <<Len(events[e]) + 1>> \o (IF ends THEN <<END>> ELSE <<>>)
       IN  /\ events' = [events EXCEPT ![e] = appended(@, kind)]
           /\ conn' = [n \in Connection |->
                  IF n \in subscribers[e]
                  THEN [conn[n] EXCEPT !.queue = @ \o pushed] ELSE conn[n]]
           /\ subscribers' = [subscribers EXCEPT ![e] = IF ends THEN {} ELSE @]
    /\ UNCHANGED received

\* The request with the cursor of the last event received of an execution, or
\* with none; a client has one live connection per execution.  A cursor of
\* another execution is refused before the stream is opened.
open(n, c, e, cursorOf) ==
    /\ conn[n].state = "idle"
    /\ ~ \E m \in Connection :
           connected(m) /\ conn[m].client = c /\ conn[m].execution = e
    /\ cursorOf # None => received[c][cursorOf] # <<>>
    /\ cursorOf = None => received[c][e] = <<>>
    /\ conn' = [conn EXCEPT ![n] =
           [NoConnection EXCEPT
               !.state = IF cursorOf \in {None, e} THEN "validated" ELSE "refused",
               !.client = c, !.execution = e,
               !.afterSequence = IF cursorOf = None THEN 0 ELSE Last(received[c][cursorOf])]]
    /\ UNCHANGED <<events, subscribers, received>>

\* subscribe(): snapshot of the history and registration, in one turn.
subscribe(n) ==
    /\ conn[n].state \in {"validated", "goneValidated"}
    /\ LET e == conn[n].execution
       IN  /\ conn' = [conn EXCEPT
                  ![n].state = IF @ = "validated" THEN "streaming" ELSE "goneStreaming",
                  ![n].queue = history(e)]
           /\ subscribers' = IF terminated(events[e]) THEN subscribers
                             ELSE [subscribers EXCEPT ![e] = @ \cup {n}]
    /\ UNCHANGED <<events, received>>

\* Mutant: the event of the cursor itself is delivered again.
deliverFromCursor(n) ==
    /\ conn[n].state \in {"streaming", "goneStreaming"}
    /\ conn[n].queue # <<>>
    /\ LET item == Head(conn[n].queue)
           live == conn[n].state = "streaming"
       IN  conn' = [conn EXCEPT
               ![n].queue = Tail(@),
               ![n].state = IF item # END THEN @ ELSE IF live THEN "ended" ELSE "goneEnded",
               ![n].wire = IF item # END /\ live /\ item >= conn[n].afterSequence
                           THEN Append(@, item) ELSE @]
    /\ UNCHANGED <<events, subscribers, received>>

\* One turn of the for-await loop: take an item, skip what the cursor covers,
\* write unless the client has gone.
deliver(n) ==
    /\ conn[n].state \in {"streaming", "goneStreaming"}
    /\ conn[n].queue # <<>>
    /\ LET item == Head(conn[n].queue)
           live == conn[n].state = "streaming"
       IN  conn' = [conn EXCEPT
               ![n].queue = Tail(@),
               ![n].state = IF item # END THEN @ ELSE IF live THEN "ended" ELSE "goneEnded",
               ![n].wire = IF item # END /\ live /\ item > conn[n].afterSequence
                           THEN Append(@, item) ELSE @]
    /\ UNCHANGED <<events, subscribers, received>>

\* The client reads the next event off the wire.
receive(n) ==
    /\ connected(n)
    /\ conn[n].wire # <<>>
    /\ received' = [received EXCEPT ![conn[n].client][conn[n].execution] =
                        Append(@, Head(conn[n].wire))]
    /\ conn' = [conn EXCEPT ![n].wire = Tail(@)]
    /\ UNCHANGED <<events, subscribers>>

\* The connection breaks: what is on the wire is lost; the route stops writing
\* but its loop, and its subscription, go on to the end of the stream.
disconnect(n) ==
    /\ connected(n)
    /\ conn' = [conn EXCEPT
           ![n].wire = <<>>,
           ![n].state = CASE @ = "validated" -> "goneValidated"
                          [] @ = "streaming" -> "goneStreaming"
                          [] @ = "ended"     -> "goneEnded"]
    /\ UNCHANGED <<events, subscribers, received>>

serve(n) == subscribe(n) \/ deliver(n) \/ receive(n)

Next ==
    \/ \E e \in Execution, kind \in Kind : append(e, kind)
    \/ \E n \in Connection :
           \/ \E c \in Client, e \in Execution, cursorOf \in Execution \cup {None} :
                  open(n, c, e, cursorOf)
           \/ serve(n)
           \/ disconnect(n)

Spec == Init /\ [][Next]_vars

\* The route's loop and the client's reads go on; nobody has to publish, to
\* open a connection or to lose one.
FairSpec == Spec /\ \A n \in Connection : WF_vars(serve(n))

-----------------------------------------------------------------------------

\* Across any number of lost connections and resumptions, a client has received
\* the events of a stream in order, each of them once, and none is missing.
ExactlyOnceInOrder ==
    \A c \in Client, e \in Execution :
        received[c][e] = [i \in 1 .. Len(received[c][e]) |-> i]

\* A stream that the server ended owes the client nothing: what is received
\* and what is on the wire are together the whole stream, terminal event last.
EndedStreamsAreComplete ==
    \A n \in Connection : conn[n].state = "ended" =>
        LET e == conn[n].execution
        IN  /\ terminated(events[e])
            /\ Len(received[conn[n].client][e]) + Len(conn[n].wire) = Len(events[e])

\* A client that stays connected to an execution that ends receives everything
\* up to the terminal event, and its stream is closed.
SubscribersLearnTheEnd ==
    \A n \in Connection :
        connected(n) /\ (\E e \in Execution : conn[n].execution = e /\ terminated(events[e]))
            ~> \/ ~ connected(n)
               \/ /\ conn[n].state = "ended"
                  /\ Len(received[conn[n].client][conn[n].execution])
                         = Len(events[conn[n].execution])

\* The queues, the replay and the cursor filter implement the plain feed.
Feed == INSTANCE EventFeed WITH
    known <- [c \in Client |-> [e \in Execution |-> Len(received[c][e])]]

ImplementsFeed == Feed!Spec
=============================================================================
