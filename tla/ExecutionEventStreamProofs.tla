--------------------- MODULE ExecutionEventStreamProofs ---------------------
(***************************************************************************)
(* Proofs about ExecutionEventStream, for any executions, clients and      *)
(* connections and streams of any length: what a client has received is    *)
(* the stream, in order, without a gap or a repetition, and the route      *)
(* implements the plain feed of EventFeed.                                 *)
(***************************************************************************)
EXTENDS ExecutionEventStream, SequenceTheorems, TLAPS

-----------------------------------------------------------------------------
(* The inductive invariant.                                                 *)

ConnectionType ==
    [state : {"idle", "validated", "streaming", "ended", "refused"} \cup
             {"goneValidated", "goneStreaming", "goneEnded"},
     client : Client \cup {None}, execution : Execution \cup {None},
     afterSequence : 0 .. MaxEvents, queue : Seq(0 .. MaxEvents),
     wire : Seq(1 .. MaxEvents)]

Live == {"validated", "streaming", "ended"}

\* The items a subscription of e hands out in all, by position.
total(log) == IF terminated(log) THEN Len(log) + 1 ELSE Len(log)

item(log, k) == IF k <= Len(log) THEN k ELSE END

\* A queue holds what is left of the stream, to its end.
Remainder(queue, log) ==
    /\ Len(queue) <= total(log)
    /\ \A i \in 1 .. Len(queue) : queue[i] = item(log, total(log) - Len(queue) + i)

\* How many items of the stream the loop has taken.
taken(k, log) == total(log) - Len(k.queue)

\* The wire goes on where the client stands.
OnTheWire(k, got) == \A i \in 1 .. Len(k.wire) : k.wire[i] = Len(got) + i

\* Where a live connection stands with its stream and its client.
Follows(k, log, got) ==
    /\ OnTheWire(k, got)
    /\ k.afterSequence <= Len(log)
    /\ k.state = "validated" => k.wire = << >> /\ k.afterSequence = Len(got)
    /\ k.state = "streaming" =>
           /\ Remainder(k.queue, log) /\ taken(k, log) <= Len(log)
           /\ Len(got) + Len(k.wire) =
                  IF taken(k, log) > k.afterSequence THEN taken(k, log) ELSE k.afterSequence
    /\ k.state = "ended" => terminated(log) /\ Len(got) + Len(k.wire) = Len(log)

Named(k) == k.state # "idle" => k.client \in Client /\ k.execution \in Execution

\* The first so many numbers.
Counted(got, log) ==
    /\ Len(got) <= Len(log)
    /\ \A i \in 1 .. Len(got) : got[i] = i

SubscribersInv ==
    /\ \A e \in Execution : \A n \in subscribers[e] :
           /\ conn[n].execution = e
           /\ conn[n].state \in {"streaming", "goneStreaming", "goneEnded"}
           /\ ~ terminated(events[e])
    /\ \A n \in Connection :
           conn[n].state = "streaming" /\ ~ terminated(events[conn[n].execution])
               => n \in subscribers[conn[n].execution]

OneLive ==
    \A m, n \in Connection :
        /\ connected(m) /\ connected(n)
        /\ conn[m].client = conn[n].client /\ conn[m].execution = conn[n].execution
        => m = n

Inductive ==
    /\ events \in [Execution -> Seq(EventKinds)]
    /\ subscribers \in [Execution -> SUBSET Connection]
    /\ conn \in [Connection -> ConnectionType]
    /\ received \in [Client -> [Execution -> Seq(1 .. MaxEvents)]]
    /\ \A e \in Execution : Len(events[e]) <= MaxEvents
    /\ \A c \in Client, e \in Execution : Counted(received[c][e], events[e])
    /\ \A n \in Connection :
           /\ Named(conn[n])
           /\ conn[n].state \in Live =>
                  Follows(conn[n], events[conn[n].execution],
                          received[conn[n].client][conn[n].execution])
    /\ SubscribersInv
    /\ OneLive

-----------------------------------------------------------------------------
(* Logs and their replay.                                                   *)

LEMMA Singleton ==
    ASSUME NEW S, NEW x \in S
    PROVE  <<x>> \in Seq(S) /\ Len(<<x>>) = 1 /\ <<x>>[1] = x
<1>1. <<x>> \in [1 .. 1 -> S]
    OBVIOUS
<1>2. <<x>> \in Seq(S)
    BY <1>1, SeqDef
<1> QED
    BY <1>2

\* What a subscription replays: every event by its number, then the end.
LEMMA History ==
    ASSUME NEW e \in Execution, events[e] \in Seq(EventKinds), Len(events[e]) <= MaxEvents
    PROVE  /\ history(e) \in Seq(0 .. MaxEvents)
           /\ Len(history(e)) = total(events[e])
           /\ \A i \in 1 .. total(events[e]) : history(e)[i] = item(events[e], i)
           /\ total(events[e]) \in Nat
<1> DEFINE log == events[e]
           numbers == [i \in 1 .. Len(log) |-> i]
           ending == IF terminated(log) THEN <<END>> ELSE << >>
<1>1. Len(log) \in Nat /\ MaxEvents \in Nat
    BY LenProperties, MaxEventsAssumption
<1>2. numbers \in Seq(0 .. MaxEvents) /\ Len(numbers) = Len(log)
    <2>1. numbers \in [1 .. Len(log) -> 0 .. MaxEvents]
        BY <1>1
    <2> QED
        BY <1>1, <2>1, IsASeq, LenProperties
<1>3. ending \in Seq(0 .. MaxEvents) /\ Len(numbers) + Len(ending) = total(log)
    <2>1. CASE terminated(log)
        <3>1. ending = <<0>> /\ 0 \in 0 .. MaxEvents
            BY <1>1, <2>1 DEF END
        <3>2. ending \in Seq(0 .. MaxEvents) /\ Len(ending) = 1
            BY <3>1, Singleton
        <3> QED
            BY <1>2, <2>1, <3>2 DEF total
    <2>2. CASE ~ terminated(log)
        <3>1. ending = << >>
            BY <2>2
        <3>2. ending \in Seq(0 .. MaxEvents) /\ Len(ending) = 0
            BY <3>1, EmptySeq
        <3> QED
            BY <1>1, <1>2, <2>2, <3>2 DEF total
    <2> QED
        BY <2>1, <2>2
<1>4. terminated(log) => ending[1] = END
    BY DEF END
<1>5. history(e) = numbers \o ending
    BY DEF history
<1>6. \A i \in 1 .. Len(log) : numbers[i] = i
    OBVIOUS
<1> HIDE DEF numbers, ending
<1>7. /\ history(e) \in Seq(0 .. MaxEvents)
      /\ Len(history(e)) = Len(numbers) + Len(ending)
      /\ \A i \in 1 .. Len(numbers) + Len(ending) :
             history(e)[i] = IF i <= Len(numbers) THEN numbers[i] ELSE ending[i - Len(numbers)]
    <2>1. /\ numbers \o ending \in Seq(0 .. MaxEvents)
          /\ Len(numbers \o ending) = Len(numbers) + Len(ending)
          /\ \A i \in 1 .. Len(numbers) + Len(ending) :
                 (numbers \o ending)[i] =
                     IF i <= Len(numbers) THEN numbers[i] ELSE ending[i - Len(numbers)]
        BY <1>2, <1>3, ConcatProperties
    <2> QED
        BY <1>5, <2>1
<1>8. total(log) \in Nat /\ (total(log) # Len(log) => terminated(log))
    BY <1>1 DEF total
<1>9. ASSUME NEW i \in 1 .. total(log)
      PROVE  history(e)[i] = item(log, i)
    <2>1. CASE i <= Len(log)
        BY <1>1, <1>2, <1>3, <1>6, <1>7, <1>8, <2>1 DEF item
    <2>2. CASE ~ (i <= Len(log))
        <3>1. terminated(log) /\ i = Len(log) + 1
            BY <1>1, <1>8, <2>2 DEF total
        <3> QED
            BY <1>1, <1>2, <1>3, <1>4, <1>7, <1>8, <2>2, <3>1 DEF item
    <2> QED
        BY <2>1, <2>2
<1> QED
    BY <1>3, <1>7, <1>8, <1>9

\* A log and its end after an append.
LEMMA AppendedLog ==
    ASSUME NEW log \in Seq(EventKinds), NEW kind \in EventKinds, ~ terminated(log)
    PROVE  /\ appended(log, kind) \in Seq(EventKinds)
           /\ Len(appended(log, kind)) = Len(log) + 1
           /\ terminated(appended(log, kind)) <=> kind \in TerminalKinds
<1>1. /\ appended(log, kind) \in Seq(EventKinds)
      /\ Len(appended(log, kind)) = Len(log) + 1
      /\ \A i \in 1 .. Len(log) : appended(log, kind)[i] = log[i]
      /\ appended(log, kind)[Len(log) + 1] = kind
    BY AppendProperties DEF appended
<1>2. Len(log) \in Nat /\ DOMAIN log = 1 .. Len(log)
      /\ DOMAIN appended(log, kind) = 1 .. (Len(log) + 1)
    BY <1>1, LenProperties
<1>3. \A i \in 1 .. Len(log) : log[i] \notin TerminalKinds
    BY <1>2 DEF terminated
<1>4. terminated(appended(log, kind)) <=> kind \in TerminalKinds
    <2>1. ASSUME kind \in TerminalKinds PROVE terminated(appended(log, kind))
        BY <1>1, <1>2, <2>1 DEF terminated
    <2>2. ASSUME terminated(appended(log, kind)) PROVE kind \in TerminalKinds
        <3>1. PICK i \in 1 .. (Len(log) + 1) : appended(log, kind)[i] \in TerminalKinds
            BY <1>2, <2>2 DEF terminated
        <3>2. i = Len(log) + 1
            BY <1>1, <1>2, <1>3, <3>1
        <3> QED
            BY <1>1, <3>1, <3>2
    <2> QED
        BY <2>1, <2>2
<1> QED
    BY <1>1, <1>4

-----------------------------------------------------------------------------
(* One connection at a time.                                                *)

\* A connection that moves within its own stream leaves the others alone.
LEMMA OneMoves ==
    ASSUME Inductive, NEW n \in Connection, NEW k \in ConnectionType,
           conn' = [conn EXCEPT ![n] = k], events' = events, received' = received,
           Named(k),
           k.state \in Live =>
               Follows(k, events[k.execution], received[k.client][k.execution]),
           \A m \in Connection \ {n} :
               k.state \in Live /\ conn[m].state \in Live =>
                   conn[m].client # k.client \/ conn[m].execution # k.execution,
           SubscribersInv', subscribers' \in [Execution -> SUBSET Connection]
    PROVE  Inductive'
<1>1. conn' \in [Connection -> ConnectionType] /\ conn'[n] = k
      /\ \A m \in Connection \ {n} : conn'[m] = conn[m]
    BY DEF Inductive
<1>2. ASSUME NEW m \in Connection
      PROVE  /\ Named(conn'[m])
             /\ conn'[m].state \in Live =>
                    Follows(conn'[m], events'[conn'[m].execution],
                            received'[conn'[m].client][conn'[m].execution])
    BY <1>1 DEF Inductive
<1>3. OneLive'
    BY <1>1 DEF Inductive, OneLive, connected, Live
<1> QED
    BY <1>1, <1>2, <1>3 DEF Inductive

\* What is known of a connection.
LEMMA Connected ==
    ASSUME Inductive, NEW n \in Connection, conn[n].state # "idle"
    PROVE  /\ conn[n] \in ConnectionType
           /\ conn[n].client \in Client /\ conn[n].execution \in Execution
           /\ events[conn[n].execution] \in Seq(EventKinds)
           /\ Len(events[conn[n].execution]) \in 0 .. MaxEvents
           /\ received[conn[n].client][conn[n].execution] \in Seq(1 .. MaxEvents)
           /\ Len(received[conn[n].client][conn[n].execution]) \in Nat
           /\ conn[n].queue \in Seq(0 .. MaxEvents) /\ Len(conn[n].queue) \in Nat
           /\ conn[n].wire \in Seq(1 .. MaxEvents) /\ Len(conn[n].wire) \in Nat
           /\ conn[n].afterSequence \in Nat
           /\ total(events[conn[n].execution]) \in Nat
<1>1. /\ conn[n] \in ConnectionType
      /\ conn[n].client \in Client /\ conn[n].execution \in Execution
      /\ conn[n].queue \in Seq(0 .. MaxEvents)
      /\ conn[n].wire \in Seq(1 .. MaxEvents)
      /\ conn[n].afterSequence \in Nat
    BY MaxEventsAssumption DEF Inductive, ConnectionType, Named
<1>2. /\ events[conn[n].execution] \in Seq(EventKinds)
      /\ Len(events[conn[n].execution]) <= MaxEvents
      /\ received[conn[n].client][conn[n].execution] \in Seq(1 .. MaxEvents)
    BY <1>1 DEF Inductive
<1> QED
    BY <1>1, <1>2, LenProperties, MaxEventsAssumption DEF total

LEMMA StepDisconnect ==
    ASSUME Inductive, NEW n \in Connection, disconnect(n)
    PROVE  Inductive'
<1> DEFINE gone == CASE conn[n].state = "validated" -> "goneValidated"
                     [] conn[n].state = "streaming" -> "goneStreaming"
                     [] conn[n].state = "ended" -> "goneEnded"
           k == [conn[n] EXCEPT !.wire = << >>, !.state = gone]
<1>1. /\ conn[n].state \in Live /\ conn' = [conn EXCEPT ![n] = k]
      /\ UNCHANGED <<events, subscribers, received>>
    BY DEF disconnect, connected, Live
<1>2. /\ gone \in {"goneValidated", "goneStreaming", "goneEnded"}
      /\ conn[n].state = "streaming" => gone = "goneStreaming"
    BY Zenon, <1>1 DEF Live
<1> HIDE DEF gone
<1>3. conn[n].state # "idle"
    BY <1>1 DEF Live
<1>4. << >> \in Seq(1 .. MaxEvents)
    BY EmptySeq
<1>5. /\ k \in ConnectionType /\ k.state = gone /\ k.client = conn[n].client
      /\ k.execution = conn[n].execution
    BY <1>2, <1>3, <1>4, Connected DEF ConnectionType
<1> HIDE DEF k
<1>6. k.state \notin Live /\ Named(k)
    BY <1>2, <1>3, <1>5, Connected DEF Live, Named
<1>7. SubscribersInv'
    BY <1>1, <1>2, <1>5 DEF Inductive, SubscribersInv, Live
<1>8. subscribers' \in [Execution -> SUBSET Connection]
    BY <1>1 DEF Inductive
<1> QED
    BY <1>1, <1>5, <1>6, <1>7, <1>8, OneMoves

LEMMA StepOpen ==
    ASSUME Inductive, NEW n \in Connection, NEW c \in Client, NEW e \in Execution,
           NEW cursorOf \in Execution \cup {None}, open(n, c, e, cursorOf)
    PROVE  Inductive'
<1> DEFINE after == IF cursorOf = None THEN 0 ELSE Last(received[c][cursorOf])
           k == [NoConnection EXCEPT
                    !.state = IF cursorOf \in {None, e} THEN "validated" ELSE "refused",
                    !.client = c, !.execution = e, !.afterSequence = after]
<1>1. /\ conn[n].state = "idle" /\ conn' = [conn EXCEPT ![n] = k]
      /\ ~ \E m \in Connection :
             connected(m) /\ conn[m].client = c /\ conn[m].execution = e
      /\ cursorOf # None => received[c][cursorOf] # << >>
      /\ cursorOf = None => received[c][e] = << >>
      /\ UNCHANGED <<events, subscribers, received>>
    BY DEF open
<1>2. /\ received \in [Client -> [Execution -> Seq(1 .. MaxEvents)]]
      /\ Counted(received[c][e], events[e])
      /\ MaxEvents \in Nat
    BY MaxEventsAssumption DEF Inductive
<1>3. after \in 0 .. MaxEvents
    <2>1. CASE cursorOf = None
        BY <1>2, <2>1
    <2>2. CASE cursorOf # None
        <3>1. received[c][cursorOf] \in Seq(1 .. MaxEvents) /\ received[c][cursorOf] # << >>
            BY <1>1, <1>2, <2>2
        <3>2. /\ Len(received[c][cursorOf]) \in Nat /\ Len(received[c][cursorOf]) # 0
              /\ received[c][cursorOf] \in [1 .. Len(received[c][cursorOf]) -> 1 .. MaxEvents]
            BY <3>1, LenProperties, EmptySeq
        <3>3. Last(received[c][cursorOf]) \in 1 .. MaxEvents
            BY <3>2 DEF Last
        <3> QED
            BY <1>2, <2>2, <3>3
    <2> QED
        BY <2>1, <2>2
<1>4. cursorOf \in {None, e} =>
          after = Len(received[c][e]) /\ after <= Len(events[e])
    <2>1. received[c][e] \in Seq(1 .. MaxEvents) /\ Len(received[c][e]) \in Nat
        BY <1>2, LenProperties
    <2>2. CASE cursorOf = None
        <3>1. Len(received[c][e]) = 0
            BY <1>1, <2>2, EmptySeq
        <3> QED
            BY <1>2, <2>2, <3>1 DEF Counted
    <2>3. CASE cursorOf # None /\ cursorOf = e
        <3>1. received[c][e] # << >> /\ after = received[c][e][Len(received[c][e])]
            BY <1>1, <2>3 DEF Last
        <3>2. Len(received[c][e]) # 0
            BY <2>1, <3>1, EmptySeq
        <3>3. received[c][e][Len(received[c][e])] = Len(received[c][e])
            BY <1>2, <2>1, <3>2 DEF Counted
        <3> QED
            BY <1>2, <3>1, <3>3 DEF Counted
    <2> QED
        BY <2>2, <2>3
<1> HIDE DEF after
<1>5. << >> \in Seq(1 .. MaxEvents) /\ << >> \in Seq(0 .. MaxEvents)
    BY EmptySeq
<1>6. /\ k \in ConnectionType /\ k.client = c /\ k.execution = e /\ k.wire = << >>
      /\ k.afterSequence = after
      /\ k.state \in {"validated", "refused"}
      /\ k.state = "validated" => cursorOf \in {None, e}
    BY <1>3, <1>5 DEF NoConnection, ConnectionType
<1> HIDE DEF k
<1>7. Named(k)
    BY <1>6 DEF Named
<1>8. k.state \in Live =>
          Follows(k, events[k.execution], received[k.client][k.execution])
    <2>1. Len(k.wire) = 0
        BY <1>6, EmptySeq
    <2> QED
        BY <1>4, <1>6, <2>1 DEF Follows, OnTheWire, Live
<1>9. \A m \in Connection \ {n} :
          k.state \in Live /\ conn[m].state \in Live =>
              conn[m].client # k.client \/ conn[m].execution # k.execution
    BY <1>1, <1>6 DEF connected, Live
<1>10. SubscribersInv'
    BY <1>1, <1>6 DEF Inductive, SubscribersInv
<1>11. subscribers' \in [Execution -> SUBSET Connection]
    BY <1>1 DEF Inductive
<1> QED
    BY <1>1, <1>6, <1>7, <1>8, <1>9, <1>10, <1>11, OneMoves

\* Another live connection never follows the same stream for the same client.
LEMMA OthersApart ==
    ASSUME Inductive, NEW n \in Connection, NEW k \in ConnectionType,
           k.client = conn[n].client, k.execution = conn[n].execution,
           k.state \in Live => conn[n].state \in Live,
           NEW m \in Connection \ {n}, k.state \in Live, conn[m].state \in Live
    PROVE  conn[m].client # k.client \/ conn[m].execution # k.execution
BY DEF Inductive, OneLive, connected, Live

LEMMA StepSubscribe ==
    ASSUME Inductive, NEW n \in Connection, subscribe(n)
    PROVE  Inductive'
<1> DEFINE e == conn[n].execution
           log == events[e]
           got == received[conn[n].client][e]
           state == IF conn[n].state = "validated" THEN "streaming" ELSE "goneStreaming"
           k == [conn[n] EXCEPT !.state = state, !.queue = history(e)]
<1>1. /\ conn[n].state \in {"validated", "goneValidated"}
      /\ conn' = [conn EXCEPT ![n] = k]
      /\ subscribers' = IF terminated(log) THEN subscribers
                        ELSE [subscribers EXCEPT ![e] = @ \cup {n}]
      /\ UNCHANGED <<events, received>>
    BY DEF subscribe
<1>2. /\ conn[n] \in ConnectionType /\ conn[n].client \in Client /\ e \in Execution
      /\ log \in Seq(EventKinds) /\ Len(log) \in 0 .. MaxEvents
      /\ Len(got) \in Nat /\ total(log) \in Nat /\ conn[n].afterSequence \in Nat
      /\ Len(conn[n].wire) \in Nat
    BY <1>1, Connected
<1>3. /\ history(e) \in Seq(0 .. MaxEvents) /\ Len(history(e)) = total(log)
      /\ \A i \in 1 .. total(log) : history(e)[i] = item(log, i)
    BY <1>2, History, MaxEventsAssumption
<1>4. /\ k \in ConnectionType /\ k.state = state /\ k.queue = history(e)
      /\ k.client = conn[n].client /\ k.execution = e /\ k.wire = conn[n].wire
      /\ k.afterSequence = conn[n].afterSequence
    BY <1>2, <1>3 DEF ConnectionType
<1>5. /\ state \in {"streaming", "goneStreaming"}
      /\ state = "streaming" => conn[n].state = "validated"
    OBVIOUS
<1> HIDE DEF k, state
<1>6. state = "streaming" => Follows(k, log, got)
    <2> SUFFICES ASSUME state = "streaming" PROVE Follows(k, log, got)
        OBVIOUS
    <2>1. conn[n].state = "validated" /\ Follows(conn[n], log, got)
        BY <1>5 DEF Inductive, Live
    <2>2. Remainder(k.queue, log) /\ taken(k, log) = 0
        <3>1. total(log) - Len(k.queue) = 0
            BY <1>2, <1>3, <1>4
        <3>2. \A i \in 1 .. Len(k.queue) : k.queue[i] = item(log, 0 + i)
            BY <1>2, <1>3, <1>4
        <3> QED
            BY <1>2, <1>3, <1>4, <3>1, <3>2 DEF Remainder, taken
    <2>3. /\ Len(got) + Len(k.wire) = k.afterSequence /\ k.afterSequence <= Len(log)
          /\ k.afterSequence \in Nat
        <3>1. k.wire = << >> /\ k.afterSequence = Len(got) /\ k.afterSequence <= Len(log)
            BY <1>4, <2>1 DEF Follows
        <3>2. Len(k.wire) = 0
            BY <3>1, EmptySeq
        <3> QED
            BY <1>2, <3>1, <3>2
    <2>4. OnTheWire(k, got)
        BY <1>4, <2>1 DEF Follows, OnTheWire
    <2>5. k.state = "streaming" /\ 0 <= Len(log)
        BY <1>2, <1>4
    <2> HIDE DEF log, got
    <2> QED
        BY <2>2, <2>3, <2>4, <2>5 DEF Follows
<1>7. Named(k)
    BY <1>2, <1>4, <1>5 DEF Named
<1>8. SubscribersInv' /\ subscribers' \in [Execution -> SUBSET Connection]
    <2>1. \A m \in Connection \ {n} : conn'[m] = conn[m]
        BY <1>1 DEF Inductive
    <2>2. conn'[n] = k
        BY <1>1 DEF Inductive
    <2>3. subscribers' \in [Execution -> SUBSET Connection]
        BY <1>1, <1>2 DEF Inductive
    <2>4. \A x \in Execution : \A m \in subscribers'[x] :
              m \in subscribers[x] \/ (m = n /\ x = e /\ ~ terminated(log))
        BY <1>1, <1>2 DEF Inductive
    <2>5. \A x \in Execution : subscribers[x] \subseteq subscribers'[x]
        BY <1>1, <1>2 DEF Inductive
    <2>6. ~ terminated(log) => n \in subscribers'[e]
        BY <1>1, <1>2 DEF Inductive
    <2>7. \A x \in Execution : n \notin subscribers[x]
        BY <1>1 DEF Inductive, SubscribersInv
    <2>8. events' = events
        BY <1>1
    <2>9. ASSUME NEW x \in Execution, NEW m \in subscribers'[x]
          PROVE  /\ conn'[m].execution = x
                 /\ conn'[m].state \in {"streaming", "goneStreaming", "goneEnded"}
                 /\ ~ terminated(events'[x])
        <3>1. CASE m \in subscribers[x]
            <4>1. m \in Connection \ {n}
                BY <2>7, <3>1 DEF Inductive
            <4> QED
                BY <2>1, <2>8, <3>1, <4>1 DEF Inductive, SubscribersInv
        <3>2. CASE m = n /\ x = e /\ ~ terminated(log)
            BY <1>4, <1>5, <2>2, <2>8, <3>2
        <3> QED
            BY <2>4, <3>1, <3>2
    <2>10. ASSUME NEW m \in Connection, conn'[m].state = "streaming",
                  ~ terminated(events'[conn'[m].execution])
           PROVE  m \in subscribers'[conn'[m].execution]
        <3>1. CASE m = n
            BY <1>4, <2>2, <2>6, <2>8, <2>10, <3>1
        <3>2. CASE m # n
            <4>1. conn'[m] = conn[m] /\ conn[m].execution \in Execution
                BY <2>1, <2>10, <3>2, Connected
            <4> QED
                BY <2>5, <2>8, <2>10, <4>1 DEF Inductive, SubscribersInv
        <3> QED
            BY <3>1, <3>2
    <2> QED
        BY <2>3, <2>9, <2>10 DEF SubscribersInv
<1>9. k.state \in Live => Follows(k, events[k.execution], received[k.client][k.execution])
    BY <1>4, <1>5, <1>6 DEF Live
<1>10. k.state \in Live => conn[n].state \in Live
    BY <1>4, <1>5 DEF Live
<1>11. \A m \in Connection \ {n} :
           k.state \in Live /\ conn[m].state \in Live =>
               conn[m].client # k.client \/ conn[m].execution # k.execution
    BY <1>4, <1>10, OthersApart
<1>12. conn' = [conn EXCEPT ![n] = k] /\ events' = events /\ received' = received
    BY <1>1
<1> HIDE DEF e
<1> QED
    BY <1>4, <1>7, <1>8, <1>9, <1>11, <1>12, OneMoves

\* A queue without its first item is what is left one item later.
LEMMA TailRemains ==
    ASSUME NEW queue \in Seq(0 .. MaxEvents), queue # << >>, NEW log,
           total(log) \in Nat, Remainder(queue, log)
    PROVE  /\ Head(queue) = item(log, total(log) - Len(queue) + 1)
           /\ Tail(queue) \in Seq(0 .. MaxEvents) /\ Len(Tail(queue)) = Len(queue) - 1
           /\ Remainder(Tail(queue), log)
<1>1. Len(queue) \in Nat /\ Len(queue) # 0
    BY LenProperties, EmptySeq
<1>2. /\ Tail(queue) \in Seq(0 .. MaxEvents) /\ Len(Tail(queue)) = Len(queue) - 1
      /\ Head(queue) = queue[1]
      /\ \A i \in 1 .. Len(Tail(queue)) : Tail(queue)[i] = queue[i + 1]
    BY HeadTailProperties
<1>3. Head(queue) = item(log, total(log) - Len(queue) + 1)
    BY <1>1, <1>2 DEF Remainder
<1>4. ASSUME NEW i \in 1 .. Len(Tail(queue))
      PROVE  Tail(queue)[i] = item(log, total(log) - Len(Tail(queue)) + i)
    <2>1. /\ i + 1 \in 1 .. Len(queue)
          /\ total(log) - Len(queue) + (i + 1) = total(log) - Len(Tail(queue)) + i
        BY <1>1, <1>2
    <2>2. queue[i + 1] = item(log, total(log) - Len(queue) + (i + 1))
        BY <2>1 DEF Remainder
    <2> QED
        BY <1>2, <2>1, <2>2
<1>5. Len(Tail(queue)) <= total(log)
    BY <1>1, <1>2 DEF Remainder
<1> QED
    BY <1>2, <1>3, <1>4, <1>5 DEF Remainder

LEMMA StepDeliver ==
    ASSUME Inductive, NEW n \in Connection, deliver(n)
    PROVE  Inductive'
<1> DEFINE e == conn[n].execution
           log == events[e]
           got == received[conn[n].client][e]
           first == Head(conn[n].queue)
           live == conn[n].state = "streaming"
           written == first # END /\ live /\ first > conn[n].afterSequence
           state == IF first # END THEN conn[n].state ELSE IF live THEN "ended" ELSE "goneEnded"
           wire == IF written THEN Append(conn[n].wire, first) ELSE conn[n].wire
           k == [conn[n] EXCEPT !.queue = Tail(conn[n].queue), !.state = state, !.wire = wire]
<1>1. /\ conn[n].state \in {"streaming", "goneStreaming"} /\ conn[n].queue # << >>
      /\ conn' = [conn EXCEPT ![n] = k]
      /\ UNCHANGED <<events, subscribers, received>>
    BY DEF deliver
<1>2. /\ conn[n] \in ConnectionType /\ conn[n].client \in Client /\ e \in Execution
      /\ log \in Seq(EventKinds) /\ Len(log) \in 0 .. MaxEvents
      /\ Len(got) \in Nat /\ total(log) \in Nat /\ conn[n].afterSequence \in Nat
      /\ conn[n].queue \in Seq(0 .. MaxEvents) /\ Len(conn[n].queue) \in Nat
      /\ conn[n].wire \in Seq(1 .. MaxEvents) /\ Len(conn[n].wire) \in Nat
    BY <1>1, Connected
<1>3. Tail(conn[n].queue) \in Seq(0 .. MaxEvents) /\ first \in 0 .. MaxEvents
    <2>1. Len(conn[n].queue) # 0
        BY <1>1, <1>2, EmptySeq
    <2> QED
        BY <1>1, <1>2, HeadTailProperties
<1>4. /\ wire \in Seq(1 .. MaxEvents)
      /\ written => Len(wire) = Len(conn[n].wire) + 1
      /\ written => wire[Len(conn[n].wire) + 1] = first
      /\ written => \A i \in 1 .. Len(conn[n].wire) : wire[i] = conn[n].wire[i]
    <2>1. CASE written
        <3>1. first \in 1 .. MaxEvents /\ wire = Append(conn[n].wire, first)
            BY <1>3, <2>1, MaxEventsAssumption DEF END
        <3> HIDE DEF first, wire, written
        <3> QED
            BY <1>2, <3>1, AppendProperties
    <2>2. CASE ~ written
        BY <1>2, <2>2
    <2> QED
        BY <2>1, <2>2
<1>5. /\ state \in {"streaming", "goneStreaming", "ended", "goneEnded"}
      /\ state \in {"streaming", "ended"} => live
      /\ state = "streaming" => first # END
      /\ state = "ended" => first = END
      /\ conn[n].state = "goneStreaming" => state \in {"goneStreaming", "goneEnded"}
    BY <1>1
<1>6. ~ written => wire = conn[n].wire
    OBVIOUS
<1>7. written <=> first # END /\ live /\ first > conn[n].afterSequence
    OBVIOUS
<1>8. live => conn[n].state = "streaming"
    OBVIOUS
<1> HIDE DEF state, wire, written
<1>9. /\ k \in ConnectionType /\ k.state = state /\ k.queue = Tail(conn[n].queue)
      /\ k.client = conn[n].client /\ k.execution = e /\ k.wire = wire
      /\ k.afterSequence = conn[n].afterSequence
    BY <1>2, <1>3, <1>4, <1>5 DEF ConnectionType
<1>10. conn' = [conn EXCEPT ![n] = k] /\ events' = events /\ received' = received
       /\ subscribers' = subscribers
    BY <1>1
<1> HIDE DEF k, live
<1>11. ASSUME live
       PROVE  /\ Follows(k, log, got)
              /\ state = "ended" => terminated(log)
    <2> DEFINE t == taken(conn[n], log)
    <2>1. /\ Follows(conn[n], log, got) /\ Remainder(conn[n].queue, log)
          /\ t = total(log) - Len(conn[n].queue) /\ t <= Len(log)
          /\ Len(got) + Len(conn[n].wire) =
                 IF t > conn[n].afterSequence THEN t ELSE conn[n].afterSequence
          /\ conn[n].afterSequence <= Len(log)
          /\ OnTheWire(conn[n], got)
        BY <1>8, <1>11 DEF Inductive, Live, Follows, taken
    <2>2. /\ first = item(log, total(log) - Len(conn[n].queue) + 1)
          /\ Len(k.queue) = Len(conn[n].queue) - 1 /\ Remainder(k.queue, log)
        BY <1>1, <1>2, <1>9, <2>1, TailRemains
    <2>3. t \in Nat /\ first = item(log, t + 1) /\ taken(k, log) = t + 1
        <3>1. Len(conn[n].queue) <= total(log)
            BY <2>1 DEF Remainder
        <3>2. taken(k, log) = total(log) - Len(k.queue)
            BY DEF taken
        <3> HIDE DEF t, log, got, first
        <3> QED
            BY <1>2, <2>1, <2>2, <3>1, <3>2
    <2> HIDE DEF t, log, got, first
    <2>4. CASE first # END
        <3>1. t + 1 <= Len(log) /\ first = t + 1 /\ k.state = "streaming"
            <4>1. t + 1 <= Len(log) /\ first = t + 1
                BY <1>2, <2>3, <2>4 DEF item
            <4> QED
                BY <1>5, <1>8, <1>9, <1>11, <2>4, <4>1 DEF state
        <3>2. CASE written
            <4>1. t + 1 > conn[n].afterSequence /\ Len(got) + Len(conn[n].wire) = t
                BY <1>2, <1>7, <2>1, <2>3, <3>1, <3>2
            <4>2. Len(k.wire) = Len(conn[n].wire) + 1
                BY <1>4, <1>9, <3>2
            <4>3. OnTheWire(k, got)
                <5>1. ASSUME NEW i \in 1 .. Len(k.wire) PROVE k.wire[i] = Len(got) + i
                    <6>1. CASE i = Len(conn[n].wire) + 1
                        BY <1>2, <1>4, <1>9, <3>1, <3>2, <4>1, <6>1
                    <6>2. CASE i # Len(conn[n].wire) + 1
                        <7>1. i \in 1 .. Len(conn[n].wire)
                            BY <1>2, <4>2, <6>2
                        <7>2. k.wire[i] = conn[n].wire[i]
                            BY <1>4, <1>9, <3>2, <7>1
                        <7> QED
                            BY <2>1, <7>1, <7>2 DEF OnTheWire
                    <6> QED
                        BY <6>1, <6>2
                <5> QED
                    BY <5>1 DEF OnTheWire
            <4>4. Len(got) + Len(k.wire) = t + 1
                BY <1>2, <4>1, <4>2
            <4> QED
                BY <1>2, <1>9, <2>1, <2>2, <2>3, <3>1, <4>1, <4>3, <4>4 DEF Follows
        <3>3. CASE ~ written
            <4>1. ~ (t + 1 > conn[n].afterSequence)
                  /\ Len(got) + Len(conn[n].wire) = conn[n].afterSequence
                BY <1>2, <1>7, <1>11, <2>1, <2>3, <2>4, <3>1, <3>3
            <4>2. k.wire = conn[n].wire
                BY <1>6, <1>9, <3>3
            <4>3. OnTheWire(k, got)
                BY <2>1, <4>2 DEF OnTheWire
            <4> QED
                BY <1>2, <1>9, <2>1, <2>2, <2>3, <3>1, <4>1, <4>2, <4>3 DEF Follows
        <3> QED
            BY <3>2, <3>3
    <2>5. CASE first = END
        <3>1. t = Len(log) /\ terminated(log)
            <4>1. ~ (t + 1 <= Len(log))
                BY <1>2, <2>3, <2>5 DEF item, END
            <4>2. t = Len(log)
                BY <1>2, <2>1, <2>3, <4>1
            <4>3. Len(conn[n].queue) # 0
                BY <1>1, <1>2, EmptySeq
            <4>4. total(log) > Len(log)
                BY <1>2, <2>1, <4>2, <4>3
            <4> QED
                BY <1>2, <4>2, <4>4 DEF total
        <3>2. k.state = "ended"
            BY <1>9, <1>11, <2>5 DEF state
        <3>3. k.wire = conn[n].wire
            BY <1>6, <1>7, <1>9, <2>5
        <3>4. OnTheWire(k, got)
            BY <2>1, <3>3 DEF OnTheWire
        <3>5. Len(got) + Len(k.wire) = Len(log)
            BY <1>2, <2>1, <3>1, <3>3
        <3> QED
            BY <1>9, <2>1, <3>1, <3>2, <3>4, <3>5 DEF Follows
    <2> QED
        BY <2>4, <2>5
<1>12. k.state \in Live => live /\ conn[n].state \in Live
    BY <1>5, <1>8, <1>9 DEF Live
<1>13. k.state \in Live => Follows(k, events[k.execution], received[k.client][k.execution])
    BY <1>9, <1>11, <1>12
<1>14. Named(k)
    BY <1>2, <1>5, <1>9 DEF Named
<1>15. \A m \in Connection \ {n} :
           k.state \in Live /\ conn[m].state \in Live =>
               conn[m].client # k.client \/ conn[m].execution # k.execution
    BY <1>9, <1>12, OthersApart
<1>16. conn'[n] = k /\ \A m \in Connection \ {n} : conn'[m] = conn[m]
    BY <1>10 DEF Inductive
<1>17. SubscribersInv'
    <2>1. ASSUME NEW x \in Execution, NEW m \in subscribers[x]
          PROVE  /\ conn'[m].execution = x /\ ~ terminated(events[x])
                 /\ conn'[m].state \in {"streaming", "goneStreaming", "goneEnded"}
        <3>1. /\ conn[m].execution = x /\ ~ terminated(events[x]) /\ m \in Connection
              /\ conn[m].state \in {"streaming", "goneStreaming", "goneEnded"}
            BY DEF Inductive, SubscribersInv
        <3>2. CASE m = n
            BY <1>5, <1>9, <1>11, <1>16, <3>1, <3>2
        <3>3. CASE m # n
            BY <1>16, <3>1, <3>3
        <3> QED
            BY <3>2, <3>3
    <2>2. ASSUME NEW m \in Connection, conn'[m].state = "streaming"
          PROVE  conn[m].state = "streaming" /\ conn'[m].execution = conn[m].execution
        BY <1>5, <1>8, <1>9, <1>16, <2>2
    <2> QED
        BY <1>10, <2>1, <2>2 DEF Inductive, SubscribersInv
<1>18. subscribers' \in [Execution -> SUBSET Connection]
    BY <1>10 DEF Inductive
<1> HIDE DEF e
<1> QED
    BY <1>9, <1>10, <1>13, <1>14, <1>15, <1>17, <1>18, OneMoves

\* What a live connection can still bring lies within the stream.
LEMMA WithinTheStream ==
    ASSUME Inductive, NEW n \in Connection, conn[n].state \in Live
    PROVE  Len(received[conn[n].client][conn[n].execution]) + Len(conn[n].wire)
               <= Len(events[conn[n].execution])
<1> DEFINE e == conn[n].execution
           log == events[e]
           got == received[conn[n].client][e]
<1>1. /\ Len(log) \in Nat /\ Len(got) \in Nat /\ total(log) \in Nat
      /\ conn[n].afterSequence \in Nat /\ Len(conn[n].queue) \in Nat
      /\ Len(conn[n].wire) \in Nat /\ MaxEvents \in Nat
    BY Connected, MaxEventsAssumption DEF Live
<1>2. Follows(conn[n], log, got)
    BY DEF Inductive
<1> HIDE DEF log, got
<1> SUFFICES Len(got) + Len(conn[n].wire) <= Len(log)
    BY DEF log, got
<1>3. CASE conn[n].state = "validated"
    <2>1. /\ conn[n].wire = << >> /\ conn[n].afterSequence = Len(got)
          /\ conn[n].afterSequence <= Len(log)
        BY <1>2, <1>3 DEF Follows
    <2>2. Len(conn[n].wire) = 0
        BY <2>1, EmptySeq
    <2> QED
        BY <1>1, <2>1, <2>2
<1>4. CASE conn[n].state = "streaming"
    <2>1. /\ taken(conn[n], log) <= Len(log) /\ conn[n].afterSequence <= Len(log)
          /\ Len(got) + Len(conn[n].wire) =
                 IF taken(conn[n], log) > conn[n].afterSequence THEN taken(conn[n], log)
                 ELSE conn[n].afterSequence
        BY <1>2, <1>4 DEF Follows
    <2> QED
        BY <1>1, <2>1
<1>5. CASE conn[n].state = "ended"
    <2>1. Len(got) + Len(conn[n].wire) = Len(log)
        BY <1>2, <1>5 DEF Follows
    <2> QED
        BY <1>1, <2>1
<1> QED
    BY <1>3, <1>4, <1>5 DEF Live

\* The client reads the event that comes next in the stream.
LEMMA ReceivesTheNext ==
    ASSUME Inductive, NEW n \in Connection, receive(n)
    PROVE  LET c    == conn[n].client
               e    == conn[n].execution
               next == Len(received[c][e]) + 1
           IN  /\ conn[n].state \in Live /\ c \in Client /\ e \in Execution
               /\ next \in 1 .. Len(events[e])
               /\ received' = [received EXCEPT ![c][e] = Append(@, next)]
               /\ conn[n].wire # << >> /\ Head(conn[n].wire) = next
<1> DEFINE got == received[conn[n].client][conn[n].execution]
<1>1. /\ conn[n].state \in Live /\ conn[n].wire # << >>
      /\ received' = [received EXCEPT ![conn[n].client][conn[n].execution] =
                          Append(@, Head(conn[n].wire))]
    BY DEF receive, connected, Live
<1>2. /\ conn[n].client \in Client /\ conn[n].execution \in Execution
      /\ conn[n].wire \in Seq(1 .. MaxEvents) /\ Len(conn[n].wire) \in Nat
      /\ Len(got) \in Nat
      /\ Len(events[conn[n].execution]) \in Nat
    BY <1>1, Connected, MaxEventsAssumption DEF Live
<1>3. Len(conn[n].wire) # 0
    BY <1>1, <1>2, EmptySeq
<1>4. OnTheWire(conn[n], got)
    BY <1>1 DEF Inductive, Follows
<1>5. Head(conn[n].wire) = conn[n].wire[1]
    BY <1>1, <1>2, HeadTailProperties
<1> HIDE DEF got
<1>6. Head(conn[n].wire) = Len(got) + 1
    BY <1>2, <1>3, <1>4, <1>5 DEF OnTheWire
<1>7. Len(got) + Len(conn[n].wire) <= Len(events[conn[n].execution])
    BY <1>1, WithinTheStream DEF got
<1>8. Len(got) + 1 \in 1 .. Len(events[conn[n].execution])
    BY <1>2, <1>3, <1>7
<1> QED
    BY <1>1, <1>2, <1>6, <1>8 DEF got

LEMMA StepReceive ==
    ASSUME Inductive, NEW n \in Connection, receive(n)
    PROVE  Inductive'
<1> DEFINE c == conn[n].client
           e == conn[n].execution
           log == events[e]
           got == received[c][e]
           next == Len(got) + 1
           longer == Append(got, next)
           rest == Tail(conn[n].wire)
           k == [conn[n] EXCEPT !.wire = rest]
<1>1. /\ conn[n].state \in Live /\ c \in Client /\ e \in Execution
      /\ next \in 1 .. Len(log)
      /\ received' = [received EXCEPT ![c][e] = longer]
      /\ conn[n].wire # << >>
    BY ReceivesTheNext
<1>2. conn' = [conn EXCEPT ![n] = k] /\ events' = events /\ subscribers' = subscribers
    BY DEF receive
<1>3. /\ conn[n] \in ConnectionType
      /\ conn[n].wire \in Seq(1 .. MaxEvents) /\ Len(conn[n].wire) \in Nat
      /\ Len(log) \in 0 .. MaxEvents /\ MaxEvents \in Nat
      /\ got \in Seq(1 .. MaxEvents) /\ Len(got) \in Nat
    BY <1>1, Connected, MaxEventsAssumption DEF Live
<1>4. /\ rest \in Seq(1 .. MaxEvents) /\ Len(rest) = Len(conn[n].wire) - 1
      /\ \A i \in 1 .. Len(rest) : rest[i] = conn[n].wire[i + 1]
    BY <1>1, <1>3, HeadTailProperties
<1>5. Follows(conn[n], log, got) /\ Counted(got, log)
    BY <1>1 DEF Inductive
<1>6. received \in [Client -> [Execution -> Seq(1 .. MaxEvents)]]
    BY DEF Inductive
<1> HIDE DEF c, e, log, got, rest
<1>7. /\ longer \in Seq(1 .. MaxEvents) /\ Len(longer) = Len(got) + 1
      /\ \A i \in 1 .. Len(got) : longer[i] = got[i]
      /\ longer[Len(got) + 1] = next
    <2>1. next \in 1 .. MaxEvents
        BY <1>1, <1>3
    <2> HIDE DEF next
    <2> QED
        BY <1>3, <2>1, AppendProperties
<1>8. /\ k \in ConnectionType /\ k.state = conn[n].state /\ k.wire = rest
      /\ k.client = conn[n].client /\ k.execution = conn[n].execution
      /\ k.queue = conn[n].queue /\ k.afterSequence = conn[n].afterSequence
    BY <1>3, <1>4 DEF ConnectionType
<1>9. Counted(longer, log)
    <2>1. \A i \in 1 .. Len(longer) : i \in 1 .. Len(got) \/ i = Len(got) + 1
        BY <1>3, <1>7
    <2>2. Len(longer) <= Len(log)
        BY <1>1, <1>3, <1>7
    <2> HIDE DEF longer
    <2> QED
        BY <1>5, <1>7, <2>1, <2>2 DEF Counted
<1>10. Follows(k, log, longer)
    <2> HIDE DEF longer, k
    <2>1. OnTheWire(k, longer)
        <3>1. ASSUME NEW i \in 1 .. Len(rest) PROVE rest[i] = Len(longer) + i
            <4>1. i + 1 \in 1 .. Len(conn[n].wire)
                BY <1>3, <1>4
            <4>2. conn[n].wire[i + 1] = Len(got) + (i + 1)
                BY <1>5, <4>1 DEF Follows, OnTheWire
            <4> QED
                BY <1>3, <1>4, <1>7, <4>2
        <3> QED
            BY <1>8, <3>1 DEF OnTheWire
    <2>2. Len(longer) + Len(k.wire) = Len(got) + Len(conn[n].wire)
        <3>1. Len(k.wire) = Len(rest)
            BY <1>8
        <3>2. Len(rest) = Len(conn[n].wire) - 1 /\ Len(longer) = Len(got) + 1
            BY <1>4, <1>7
        <3>3. Len(got) \in Nat /\ Len(conn[n].wire) \in Nat
            BY <1>3
        <3>4. PICK a \in Nat, b \in Nat : a = Len(got) /\ b = Len(conn[n].wire)
            BY <3>3
        <3>5. Len(longer) = a + 1 /\ Len(k.wire) = b - 1
            BY <3>1, <3>2, <3>4
        <3>6. Len(longer) + Len(k.wire) = a + b
            BY <3>5
        <3> QED
            BY <3>4, <3>6
    <2>3. k.state # "validated"
        BY <1>1, <1>5, <1>8 DEF Follows
    <2>4. taken(k, log) = taken(conn[n], log)
        BY <1>8 DEF taken
    <2> QED
        BY <1>5, <1>8, <2>1, <2>2, <2>3, <2>4 DEF Follows
<1> HIDE DEF longer, k
<1>11. /\ received' \in [Client -> [Execution -> Seq(1 .. MaxEvents)]]
       /\ received'[c][e] = longer
       /\ \A d \in Client, x \in Execution :
              d # c \/ x # e => received'[d][x] = received[d][x]
    BY <1>1, <1>6, <1>7
<1>12. /\ conn' \in [Connection -> ConnectionType] /\ conn'[n] = k
       /\ \A m \in Connection \ {n} : conn'[m] = conn[m]
    BY <1>2, <1>8 DEF Inductive
<1>13. ASSUME NEW d \in Client, NEW x \in Execution
       PROVE  Counted(received'[d][x], events'[x])
    <2>1. CASE d = c /\ x = e
        BY <1>2, <1>9, <1>11, <2>1 DEF log
    <2>2. CASE d # c \/ x # e
        BY <1>2, <1>11, <2>2 DEF Inductive
    <2> QED
        BY <2>1, <2>2
<1>14. ASSUME NEW m \in Connection
       PROVE  /\ Named(conn'[m])
              /\ conn'[m].state \in Live =>
                     Follows(conn'[m], events'[conn'[m].execution],
                             received'[conn'[m].client][conn'[m].execution])
    <2>1. CASE m = n
        BY <1>1, <1>2, <1>8, <1>10, <1>11, <1>12, <2>1 DEF Named, c, e, log
    <2>2. CASE m # n
        <3>1. conn'[m] = conn[m] /\ Named(conn[m])
            BY <1>12, <2>2 DEF Inductive
        <3>2. ASSUME conn[m].state \in Live
              PROVE  received'[conn[m].client][conn[m].execution] =
                         received[conn[m].client][conn[m].execution]
            <4>1. conn[m].client # c \/ conn[m].execution # e
                BY <1>1, <2>2, <3>2 DEF Inductive, OneLive, connected, Live, c, e
            <4>2. conn[m].client \in Client /\ conn[m].execution \in Execution
                BY <3>1, <3>2 DEF Named, Live
            <4> QED
                BY <1>11, <4>1, <4>2
        <3> QED
            BY <1>2, <3>1, <3>2 DEF Inductive
    <2> QED
        BY <2>1, <2>2
<1>15. /\ \A m \in Connection : conn'[m].state = conn[m].state
             /\ conn'[m].client = conn[m].client /\ conn'[m].execution = conn[m].execution
    BY <1>8, <1>12
<1>16. SubscribersInv' /\ OneLive'
    <2>1. OneLive'
        <3>1. OneLive /\ (\A m \in Connection : connected(m)' <=> connected(m))
            BY <1>15 DEF Inductive, connected
        <3> QED
            BY <1>15, <3>1 DEF OneLive
    <2>2. SubscribersInv'
        BY <1>2, <1>15 DEF Inductive, SubscribersInv
    <2> QED
        BY <2>1, <2>2
<1> QED
    BY <1>2, <1>11, <1>12, <1>13, <1>14, <1>16 DEF Inductive

\* What append() pushes to a subscriber.
pushedFor(log, kind) ==
    <<Len(log) + 1>> \o (IF kind \in TerminalKinds THEN <<END>> ELSE << >>)

\* The items pushed are those that the longer stream has beyond the shorter.
LEMMA Pushed ==
    ASSUME NEW log \in Seq(EventKinds), NEW kind \in EventKinds, ~ terminated(log),
           Len(log) < MaxEvents
    PROVE  /\ pushedFor(log, kind) \in Seq(0 .. MaxEvents)
           /\ Len(pushedFor(log, kind)) \in {1, 2}
           /\ total(log) = Len(log)
           /\ total(appended(log, kind)) = Len(log) + Len(pushedFor(log, kind))
           /\ \A j \in 1 .. Len(pushedFor(log, kind)) :
                  pushedFor(log, kind)[j] = item(appended(log, kind), Len(log) + j)
<1> DEFINE one == <<Len(log) + 1>>
           ending == IF kind \in TerminalKinds THEN <<END>> ELSE << >>
<1>1. Len(log) \in Nat /\ MaxEvents \in Nat /\ Len(log) + 1 \in 0 .. MaxEvents
      /\ 0 \in 0 .. MaxEvents
    BY LenProperties, MaxEventsAssumption
<1>2. one \in Seq(0 .. MaxEvents) /\ Len(one) = 1 /\ one[1] = Len(log) + 1
    <2> DEFINE x == Len(log) + 1
    <2>1. x \in 0 .. MaxEvents
        BY <1>1
    <2> HIDE DEF x
    <2>2. <<x>> \in Seq(0 .. MaxEvents) /\ Len(<<x>>) = 1 /\ <<x>>[1] = x
        BY <2>1, Singleton
    <2> QED
        BY <2>2 DEF x
<1>3. /\ ending \in Seq(0 .. MaxEvents)
      /\ Len(ending) = IF kind \in TerminalKinds THEN 1 ELSE 0
      /\ kind \in TerminalKinds => ending[1] = END
    <2>1. CASE kind \in TerminalKinds
        <3>1. ending = <<END>> /\ END \in 0 .. MaxEvents
            BY <1>1, <2>1 DEF END
        <3>2. ending \in Seq(0 .. MaxEvents) /\ Len(ending) = 1 /\ ending[1] = END
            BY <3>1, Singleton
        <3> QED
            BY <2>1, <3>2
    <2>2. CASE kind \notin TerminalKinds
        <3>1. ending = << >>
            BY <2>2
        <3>2. ending \in Seq(0 .. MaxEvents) /\ Len(ending) = 0
            BY <3>1, EmptySeq
        <3> QED
            BY <2>2, <3>2
    <2> QED
        BY <2>1, <2>2
<1>4. pushedFor(log, kind) = one \o ending
    BY DEF pushedFor
<1> HIDE DEF one, ending
<1>5. /\ one \o ending \in Seq(0 .. MaxEvents)
      /\ Len(one \o ending) = Len(one) + Len(ending)
      /\ \A j \in 1 .. Len(one) + Len(ending) :
             (one \o ending)[j] = IF j <= Len(one) THEN one[j] ELSE ending[j - Len(one)]
    BY <1>2, <1>3, ConcatProperties
<1>6. /\ Len(appended(log, kind)) = Len(log) + 1
      /\ terminated(appended(log, kind)) <=> kind \in TerminalKinds
    BY AppendedLog
<1>7. total(log) = Len(log)
    BY DEF total
<1>8. CASE kind \in TerminalKinds
    <2>1. Len(pushedFor(log, kind)) = 2
        BY <1>2, <1>3, <1>4, <1>5, <1>8
    <2>2. pushedFor(log, kind)[1] = Len(log) + 1 /\ pushedFor(log, kind)[2] = END
        BY <1>2, <1>3, <1>4, <1>5, <1>8
    <2>3. /\ item(appended(log, kind), Len(log) + 1) = Len(log) + 1
          /\ item(appended(log, kind), Len(log) + 2) = END
        BY <1>1, <1>6 DEF item
    <2>4. \A j \in 1 .. 2 : j = 1 \/ j = 2
        OBVIOUS
    <2>5. \A j \in 1 .. 2 :
              pushedFor(log, kind)[j] = item(appended(log, kind), Len(log) + j)
        BY <2>2, <2>3, <2>4
    <2>6. total(appended(log, kind)) = Len(log) + 2
        BY <1>1, <1>6, <1>8 DEF total
    <2> QED
        BY <1>4, <1>5, <1>7, <2>1, <2>5, <2>6
<1>9. CASE kind \notin TerminalKinds
    <2>1. Len(pushedFor(log, kind)) = 1
        BY <1>2, <1>3, <1>4, <1>5, <1>9
    <2>2. pushedFor(log, kind)[1] = Len(log) + 1
        <3>1. 1 \in 1 .. Len(one) + Len(ending) /\ 1 <= Len(one)
            BY <1>2, <1>3, <1>9
        <3>2. (one \o ending)[1] = one[1]
            BY <1>5, <3>1
        <3> QED
            BY <1>2, <1>4, <3>2
    <2>3. item(appended(log, kind), Len(log) + 1) = Len(log) + 1
        BY <1>1, <1>6 DEF item
    <2>4. \A j \in 1 .. 1 : j = 1
        OBVIOUS
    <2>5. \A j \in 1 .. 1 :
              pushedFor(log, kind)[j] = item(appended(log, kind), Len(log) + j)
        BY <2>2, <2>3, <2>4
    <2>6. total(appended(log, kind)) = Len(log) + 1
        BY <1>1, <1>6, <1>9 DEF total
    <2> QED
        BY <1>4, <1>5, <1>7, <2>1, <2>5, <2>6
<1> QED
    BY <1>8, <1>9

\* A subscriber's queue stays what is left of the stream.
LEMMA PushKeepsRemainder ==
    ASSUME NEW log \in Seq(EventKinds), NEW kind \in EventKinds, ~ terminated(log),
           Len(log) < MaxEvents, NEW queue \in Seq(0 .. MaxEvents), Remainder(queue, log)
    PROVE  /\ Remainder(queue \o pushedFor(log, kind), appended(log, kind))
           /\ total(appended(log, kind)) - Len(queue \o pushedFor(log, kind)) =
                  total(log) - Len(queue)
<1> DEFINE pushed == pushedFor(log, kind)
           longer == appended(log, kind)
           queued == queue \o pushed
<1>1. Len(log) \in Nat /\ Len(queue) \in Nat
    BY LenProperties
<1>2. /\ pushed \in Seq(0 .. MaxEvents) /\ Len(pushed) \in {1, 2}
      /\ total(log) = Len(log) /\ total(longer) = Len(log) + Len(pushed)
      /\ \A j \in 1 .. Len(pushed) : pushed[j] = item(longer, Len(log) + j)
    BY Pushed
<1>3. Len(longer) = Len(log) + 1
    BY AppendedLog
<1> HIDE DEF pushed, longer
<1>4. /\ Len(queued) = Len(queue) + Len(pushed)
      /\ \A i \in 1 .. Len(queue) + Len(pushed) :
             queued[i] = IF i <= Len(queue) THEN queue[i] ELSE pushed[i - Len(queue)]
    BY <1>2, ConcatProperties
<1> HIDE DEF queued
<1>5. PICK l \in Nat, q \in Nat, p \in Nat :
          l = Len(log) /\ q = Len(queue) /\ p = Len(pushed)
    BY <1>1, <1>2
<1>6. q <= l /\ \A i \in 1 .. q : queue[i] = item(log, l - q + i)
    BY <1>2, <1>5 DEF Remainder
<1>7. total(longer) = l + p /\ Len(queued) = q + p /\ Len(longer) = l + 1
    BY <1>2, <1>3, <1>4, <1>5
<1>8. ASSUME NEW i \in 1 .. q + p
      PROVE  queued[i] = item(longer, (l + p) - (q + p) + i)
    <2>1. (l + p) - (q + p) + i = l - q + i
        OBVIOUS
    <2>2. CASE i <= q
        <3>1. queued[i] = queue[i] /\ queue[i] = item(log, l - q + i)
            BY <1>4, <1>5, <1>6, <2>2
        <3>2. l - q + i <= l
            BY <2>2
        <3>3. item(log, l - q + i) = l - q + i /\ item(longer, l - q + i) = l - q + i
            BY <1>5, <1>7, <3>2 DEF item
        <3> QED
            BY <2>1, <3>1, <3>3
    <2>3. CASE ~ (i <= q)
        <3>1. i - q \in 1 .. p /\ l + (i - q) = l - q + i
            BY <2>3
        <3>2. queued[i] = pushed[i - q]
            BY <1>4, <1>5, <2>3
        <3>3. pushed[i - q] = item(longer, l + (i - q))
            BY <1>2, <1>5, <3>1
        <3> QED
            BY <2>1, <3>1, <3>2, <3>3
    <2> QED
        BY <2>2, <2>3
<1>9. Remainder(queued, longer)
    BY <1>6, <1>7, <1>8 DEF Remainder
<1>10. total(longer) - Len(queued) = total(log) - Len(queue)
    <2>1. (l + p) - (q + p) = l - q
        OBVIOUS
    <2> QED
        BY <1>2, <1>5, <1>7, <2>1
<1> QED
    BY <1>9, <1>10 DEF queued, pushed, longer

LEMMA StepAppend ==
    ASSUME Inductive, NEW e \in Execution, NEW kind \in EventKinds, append(e, kind)
    PROVE  Inductive'
<1> DEFINE log == events[e]
           longer == appended(log, kind)
           pushed == pushedFor(log, kind)
           ends == kind \in TerminalKinds
           fed(m) == [conn[m] EXCEPT !.queue = conn[m].queue \o pushed]
<1>1. /\ Len(log) < MaxEvents /\ ~ terminated(log)
      /\ events' = [events EXCEPT ![e] = longer]
      /\ conn' = [m \in Connection |-> IF m \in subscribers[e] THEN fed(m) ELSE conn[m]]
      /\ subscribers' = [subscribers EXCEPT ![e] = IF ends THEN {} ELSE @]
      /\ received' = received
    BY DEF append, pushedFor
<1>2. /\ log \in Seq(EventKinds) /\ Len(log) \in Nat /\ MaxEvents \in Nat
      /\ \A m \in Connection : conn[m] \in ConnectionType
    BY LenProperties, MaxEventsAssumption DEF Inductive
<1>3. /\ longer \in Seq(EventKinds) /\ Len(longer) = Len(log) + 1
      /\ terminated(longer) <=> ends
    BY <1>1, <1>2, AppendedLog
<1>4. pushed \in Seq(0 .. MaxEvents)
    BY <1>1, <1>2, Pushed
<1> HIDE DEF longer, pushed, ends, log
<1>5. ASSUME NEW m \in Connection
      PROVE  /\ fed(m) \in ConnectionType /\ fed(m).queue = conn[m].queue \o pushed
             /\ fed(m).state = conn[m].state /\ fed(m).client = conn[m].client
             /\ fed(m).execution = conn[m].execution /\ fed(m).wire = conn[m].wire
             /\ fed(m).afterSequence = conn[m].afterSequence
    <2>1. conn[m].queue \in Seq(0 .. MaxEvents)
        BY <1>2 DEF ConnectionType
    <2>2. conn[m].queue \o pushed \in Seq(0 .. MaxEvents)
        BY <1>4, <2>1, ConcatProperties
    <2> QED
        BY <1>2, <2>2 DEF ConnectionType
<1> HIDE DEF fed
<1>6. ASSUME NEW m \in Connection
      PROVE  /\ conn'[m] = IF m \in subscribers[e] THEN fed(m) ELSE conn[m]
             /\ conn'[m] \in ConnectionType /\ conn'[m].state = conn[m].state
             /\ conn'[m].client = conn[m].client
             /\ conn'[m].execution = conn[m].execution /\ conn'[m].wire = conn[m].wire
             /\ conn'[m].afterSequence = conn[m].afterSequence
    BY <1>1, <1>2, <1>5
<1>7. /\ events' \in [Execution -> Seq(EventKinds)] /\ events'[e] = longer
      /\ \A x \in Execution : x # e => events'[x] = events[x]
    BY <1>1, <1>3 DEF Inductive
<1>8. /\ \A x \in Execution : Len(events'[x]) <= MaxEvents
      /\ \A x \in Execution : Len(events[x]) <= Len(events'[x])
    <2>1. ASSUME NEW x \in Execution
          PROVE  Len(events'[x]) <= MaxEvents /\ Len(events[x]) <= Len(events'[x])
        <3>1. CASE x = e
            BY <1>1, <1>2, <1>3, <1>7, <3>1 DEF log
        <3>2. CASE x # e
            <4>1. Len(events[x]) \in Nat /\ Len(events[x]) <= MaxEvents
                BY LenProperties DEF Inductive
            <4> QED
                BY <1>7, <3>2, <4>1
        <3> QED
            BY <3>1, <3>2
    <2> QED
        BY <2>1
<1>9. ASSUME NEW c \in Client, NEW x \in Execution
      PROVE  Counted(received'[c][x], events'[x])
    <2>1. Counted(received[c][x], events[x]) /\ received[c][x] \in Seq(1 .. MaxEvents)
          /\ events[x] \in Seq(EventKinds) /\ events'[x] \in Seq(EventKinds)
        BY <1>7 DEF Inductive
    <2>2. PICK a \in Nat, b \in Nat, d \in Nat :
              a = Len(received[c][x]) /\ b = Len(events[x]) /\ d = Len(events'[x])
        BY <2>1, LenProperties
    <2>3. a <= b /\ b <= d
        BY <1>8, <2>1, <2>2 DEF Counted
    <2>4. a <= d
        BY <2>3
    <2>5. Len(received[c][x]) <= Len(events'[x])
        BY <2>2, <2>4
    <2> QED
        BY <1>1, <2>1, <2>5 DEF Counted
<1>10. ASSUME NEW m \in Connection
       PROVE  Named(conn'[m])
    BY <1>6 DEF Inductive, Named
<1>11. ASSUME NEW m \in Connection, conn[m].state \in Live
       PROVE  Follows(conn'[m], events'[conn[m].execution],
                      received[conn[m].client][conn[m].execution])
    <2> DEFINE x == conn[m].execution
               got == received[conn[m].client][x]
    <2>1. Follows(conn[m], events[x], got)
        BY <1>11 DEF Inductive
    <2>2. x \in Execution /\ conn[m].queue \in Seq(0 .. MaxEvents)
        BY <1>11, Connected DEF Live
    <2>3. ASSUME x # e PROVE m \notin subscribers[e]
        BY <2>3 DEF Inductive, SubscribersInv
    <2>4. CASE x # e
        BY <1>6, <1>7, <2>1, <2>2, <2>3, <2>4
    <2>5. CASE x = e
        <3>1. conn[m].afterSequence <= Len(longer)
            <4>1. conn[m].afterSequence \in Nat /\ conn[m].afterSequence <= Len(log)
                BY <1>11, <2>1, <2>5, Connected DEF Follows, Live, log
            <4> QED
                BY <1>2, <1>3, <4>1
        <3>2. OnTheWire(conn'[m], got)
            BY <1>6, <2>1 DEF Follows, OnTheWire
        <3>3. CASE conn[m].state = "validated"
            BY <1>6, <1>7, <2>1, <2>5, <3>1, <3>2, <3>3 DEF Follows
        <3>4. CASE conn[m].state = "streaming"
            <4>1. m \in subscribers[e]
                BY <1>1, <2>5, <3>4 DEF Inductive, SubscribersInv, log
            <4>2. conn'[m].queue = conn[m].queue \o pushed
                BY <1>5, <1>6, <4>1
            <4>3. Remainder(conn[m].queue, log) /\ taken(conn[m], log) <= Len(log)
                BY <2>1, <2>5, <3>4 DEF Follows, log
            <4>4. /\ Remainder(conn'[m].queue, longer)
                  /\ taken(conn'[m], longer) = taken(conn[m], log)
                BY <1>1, <1>2, <2>2, <4>2, <4>3, PushKeepsRemainder
                   DEF pushed, longer, taken
            <4>5. taken(conn'[m], longer) <= Len(longer)
                <5>1. taken(conn[m], log) \in Int
                    BY <1>1, <1>2, <2>2, LenProperties DEF taken, total
                <5> QED
                    BY <1>2, <1>3, <4>3, <4>4, <5>1
            <4>6. Len(got) + Len(conn'[m].wire) =
                      IF taken(conn'[m], longer) > conn'[m].afterSequence
                      THEN taken(conn'[m], longer) ELSE conn'[m].afterSequence
                BY <1>6, <2>1, <2>5, <3>4, <4>4 DEF Follows, log
            <4>7. conn'[m].state = "streaming" /\ conn'[m].afterSequence <= Len(longer)
                BY <1>6, <3>1, <3>4
            <4>8. Follows(conn'[m], longer, got)
                <5> HIDE DEF got
                <5> QED
                    BY <3>2, <4>4, <4>5, <4>6, <4>7 DEF Follows
            <4> QED
                BY <1>7, <2>5, <4>8
        <3>5. CASE conn[m].state = "ended"
            BY <1>1, <2>1, <2>5, <3>5 DEF Follows, log
        <3> QED
            BY <1>11, <3>3, <3>4, <3>5 DEF Live
    <2> QED
        BY <2>4, <2>5
<1>12. subscribers' \in [Execution -> SUBSET Connection]
    BY <1>1 DEF Inductive
<1>13. SubscribersInv'
    <2>1. ASSUME NEW x \in Execution, NEW m \in subscribers'[x]
          PROVE  /\ conn'[m].execution = x /\ ~ terminated(events'[x])
                 /\ conn'[m].state \in {"streaming", "goneStreaming", "goneEnded"}
        <3>1. m \in subscribers[x] /\ m \in Connection /\ (x = e => ~ ends)
            BY <1>1, <2>1 DEF Inductive
        <3>2. /\ conn[m].execution = x /\ ~ terminated(events[x])
              /\ conn[m].state \in {"streaming", "goneStreaming", "goneEnded"}
            BY <3>1 DEF Inductive, SubscribersInv
        <3> QED
            BY <1>3, <1>6, <1>7, <3>1, <3>2
    <2>2. ASSUME NEW m \in Connection, conn'[m].state = "streaming",
                 ~ terminated(events'[conn'[m].execution])
          PROVE  m \in subscribers'[conn'[m].execution]
        <3>1. conn[m].state = "streaming" /\ conn[m].execution \in Execution
              /\ conn'[m].execution = conn[m].execution
            BY <1>6, <2>2, Connected
        <3>2. ~ terminated(events[conn[m].execution])
            BY <1>1, <1>7, <2>2, <3>1 DEF log
        <3>3. m \in subscribers[conn[m].execution]
            BY <3>1, <3>2 DEF Inductive, SubscribersInv
        <3>4. conn[m].execution = e => ~ ends
            BY <1>3, <1>7, <2>2, <3>1
        <3> QED
            BY <1>1, <3>1, <3>3, <3>4 DEF Inductive
    <2> QED
        BY <2>1, <2>2 DEF SubscribersInv
<1>14. OneLive'
    <2>1. OneLive /\ (\A m \in Connection : connected(m)' <=> connected(m))
        BY <1>6 DEF Inductive, connected
    <2> QED
        BY <1>6, <2>1 DEF OneLive
<1>15. ASSUME NEW m \in Connection, conn'[m].state \in Live
       PROVE  Follows(conn'[m], events'[conn'[m].execution],
                      received'[conn'[m].client][conn'[m].execution])
    BY <1>1, <1>6, <1>11, <1>15
<1>16. conn' \in [Connection -> ConnectionType]
    BY <1>1, <1>6
<1>17. received' \in [Client -> [Execution -> Seq(1 .. MaxEvents)]]
    BY <1>1 DEF Inductive
<1> QED
    BY <1>7, <1>8, <1>9, <1>10, <1>12, <1>13, <1>14, <1>15, <1>16, <1>17 DEF Inductive

-----------------------------------------------------------------------------
(* The invariant holds always.                                              *)

LEMMA InitInductive == Init => Inductive
<1> SUFFICES ASSUME Init PROVE Inductive
    OBVIOUS
<1>1. /\ events = [e \in Execution |-> << >>] /\ subscribers = [e \in Execution |-> {}]
      /\ conn = [n \in Connection |-> NoConnection]
      /\ received = [c \in Client |-> [e \in Execution |-> << >>]]
    BY DEF Init
<1>2. /\ << >> \in Seq(EventKinds) /\ << >> \in Seq(0 .. MaxEvents)
      /\ << >> \in Seq(1 .. MaxEvents) /\ Len(<< >>) = 0
    BY EmptySeq
<1>3. MaxEvents \in Nat /\ 0 \in 0 .. MaxEvents
    BY MaxEventsAssumption
<1>4. NoConnection \in ConnectionType /\ NoConnection.state = "idle"
    BY <1>2, <1>3 DEF NoConnection, ConnectionType
<1>5. \A n \in Connection : conn[n].state = "idle"
    BY <1>1, <1>4
<1>6. \A n \in Connection : Named(conn[n]) /\ conn[n].state \notin Live
    BY <1>5 DEF Named, Live
<1>7. SubscribersInv /\ OneLive
    BY <1>1, <1>5 DEF SubscribersInv, OneLive, connected
<1>8. \A c \in Client, e \in Execution : Counted(received[c][e], events[e])
    BY <1>1, <1>2 DEF Counted
<1>9. \A e \in Execution : Len(events[e]) <= MaxEvents
    BY <1>1, <1>2, <1>3
<1> QED
    BY <1>1, <1>2, <1>4, <1>6, <1>7, <1>8, <1>9 DEF Inductive

LEMMA NextInductive ==
    ASSUME Inductive, [Next]_vars
    PROVE  Inductive'
<1>1. CASE UNCHANGED vars
    BY <1>1 DEF vars, Inductive, SubscribersInv, OneLive, connected
<1>2. ASSUME NEW e \in Execution, NEW kind \in Kind, append(e, kind)
      PROVE  Inductive'
    BY <1>2, KindAssumption, StepAppend
<1>3. ASSUME NEW n \in Connection, NEW c \in Client, NEW e \in Execution,
             NEW cursorOf \in Execution \cup {None}, open(n, c, e, cursorOf)
      PROVE  Inductive'
    BY <1>3, StepOpen
<1>4. ASSUME NEW n \in Connection, serve(n) \/ disconnect(n)
      PROVE  Inductive'
    BY <1>4, StepSubscribe, StepDeliver, StepReceive, StepDisconnect DEF serve
<1> QED
    BY <1>1, <1>2, <1>3, <1>4 DEF Next

LEMMA InductiveHolds == Spec => []Inductive
BY InitInductive, NextInductive, PTL DEF Spec

-----------------------------------------------------------------------------
(* The theorems.                                                            *)

\* The store, the connections and the clients keep their types.
THEOREM StreamTypeCorrect == Spec => []TypeOK
<1>1. Inductive => TypeOK
    BY DEF Inductive, ConnectionType, TypeOK
<1> QED
    BY <1>1, InductiveHolds, PTL

\* Whatever connections a client opens, loses and resumes with its cursor, it
\* receives the events of a stream in order, each once and none left out (the
\* replay and the cursor filter of the events route).
THEOREM ReceivedInOrder == Spec => []ExactlyOnceInOrder
<1>1. ASSUME Inductive, NEW c \in Client, NEW e \in Execution
      PROVE  received[c][e] = [i \in 1 .. Len(received[c][e]) |-> i]
    <2>1. received[c][e] \in Seq(1 .. MaxEvents) /\ Counted(received[c][e], events[e])
        BY <1>1 DEF Inductive
    <2>2. received[c][e] \in [1 .. Len(received[c][e]) -> 1 .. MaxEvents]
        BY <2>1, LenProperties
    <2> QED
        BY <2>1, <2>2 DEF Counted
<1>2. Inductive => ExactlyOnceInOrder
    BY <1>1 DEF ExactlyOnceInOrder
<1> QED
    BY <1>2, InductiveHolds, PTL

\* A connection that the server closed at the end of the stream has written
\* the whole of it, the terminal event included.
THEOREM EndedIsComplete == Spec => []EndedStreamsAreComplete
<1>1. Inductive => EndedStreamsAreComplete
    BY DEF Inductive, EndedStreamsAreComplete, Follows, Live
<1> QED
    BY <1>1, InductiveHolds, PTL

\* The route implements the plain feed: every append publishes one event, every
\* read of a client teaches it the next one, and nothing else shows.
THEOREM StreamImplementsFeed == Spec => ImplementsFeed
<1> DEFINE learnt == [c \in Client |-> [e \in Execution |-> Len(received[c][e])]]
<1>1. Init => Feed!Init
    <2> SUFFICES ASSUME Init PROVE Feed!Init
        OBVIOUS
    <2>1. Len(<< >>) = 0
        BY EmptySeq
    <2>2. learnt = [c \in Client |-> [e \in Execution |-> 0]]
        BY <2>1 DEF Init
    <2> QED
        BY <2>2 DEF Init, Feed!Init
<1>2. ASSUME Inductive, [Next]_vars
      PROVE  [Feed!Next]_(Feed!vars)
    <2>1. ASSUME events' = events, received' = received
          PROVE  UNCHANGED Feed!vars
        BY <2>1 DEF Feed!vars
    <2>2. ASSUME NEW e \in Execution, NEW kind \in Kind, append(e, kind)
          PROVE  Feed!Next
        <3>1. /\ ~ terminated(events[e]) /\ received' = received /\ kind \in EventKinds
              /\ events' = [events EXCEPT ![e] = appended(@, kind)]
            BY <2>2, KindAssumption DEF append
        <3>2. Feed!Publish(e, kind)
            BY <3>1 DEF Feed!Publish, Feed!terminated, Feed!appended, terminated, appended,
                        Feed!TerminalKinds, TerminalKinds
        <3> QED
            BY <3>1, <3>2 DEF Feed!Next, Feed!EventKinds, EventKinds, Feed!TerminalKinds,
                              TerminalKinds
    <2>3. ASSUME NEW n \in Connection, receive(n)
          PROVE  Feed!Next
        <3>0. PICK c \in Client, e \in Execution : c = conn[n].client /\ e = conn[n].execution
            BY <1>2, <2>3, ReceivesTheNext
        <3> DEFINE next == Len(received[c][e]) + 1
        <3>1. /\ next \in 1 .. Len(events[e])
              /\ received' = [received EXCEPT ![c][e] = Append(@, next)]
            BY <1>2, <2>3, <3>0, ReceivesTheNext
        <3>2. events' = events
            BY <2>3 DEF receive
        <3>3. Len(received[c][e]) \in Nat /\ received[c][e] \in Seq(1 .. MaxEvents)
              /\ MaxEvents \in Nat /\ Len(events[e]) \in 0 .. MaxEvents
            BY <1>2, <3>1, LenProperties, MaxEventsAssumption DEF Inductive
        <3>4. Len(Append(received[c][e], next)) = Len(received[c][e]) + 1
            <4>1. next \in 1 .. MaxEvents
                BY <3>1, <3>3
            <4> HIDE DEF next
            <4> QED
                BY <3>3, <4>1, AppendProperties
        <3> HIDE DEF next
        <3>5. \A d \in Client, x \in Execution :
                  received'[d][x] = IF d = c /\ x = e THEN Append(received[c][e], next)
                                    ELSE received[d][x]
            BY <1>2, <3>1 DEF Inductive
        <3>6. learnt' = [learnt EXCEPT ![c][e] = @ + 1]
            <4>1. ASSUME NEW d \in Client, NEW x \in Execution
                  PROVE  Len(received'[d][x]) =
                             IF d = c /\ x = e THEN Len(received[d][x]) + 1
                             ELSE Len(received[d][x])
                BY <3>4, <3>5
            <4> QED
                BY <3>1, <4>1
        <3>7. learnt[c][e] < Len(events[e])
            <4>1. learnt[c][e] = Len(received[c][e])
                BY <3>1
            <4>2. Len(received[c][e]) + 1 <= Len(events[e])
                BY <3>1, <3>3 DEF next
            <4> QED
                BY <3>3, <4>1, <4>2
        <3>8. Feed!Learn(c, e)
            BY <3>2, <3>6, <3>7 DEF Feed!Learn
        <3> QED
            BY <3>8 DEF Feed!Next
    <2>4. ASSUME NEW n \in Connection,
                 \/ subscribe(n) \/ deliver(n) \/ disconnect(n)
                 \/ \E c \in Client, e \in Execution, cursorOf \in Execution \cup {None} :
                        open(n, c, e, cursorOf)
          PROVE  events' = events /\ received' = received
        BY <2>4 DEF subscribe, deliver, disconnect, open
    <2>5. CASE UNCHANGED vars
        BY <2>1, <2>5 DEF vars
    <2> QED
        BY <1>2, <2>1, <2>2, <2>3, <2>4, <2>5 DEF Next, serve
<1> QED
    BY <1>1, <1>2, InductiveHolds, PTL DEF Spec, ImplementsFeed, Feed!Spec
=============================================================================
