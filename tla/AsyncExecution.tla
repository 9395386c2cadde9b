--------------------------- MODULE AsyncExecution ---------------------------
(***************************************************************************)
(* The asynchronous execution pipeline of the server: POST /v1/executions, *)
(* the background task it fires, and POST /v1/executions/:id/cancel, over  *)
(* the execution repository, the event store and the supervisor.           *)
(*                                                                         *)
(* One action per await of a handler.  With StoreSuspends = FALSE a store  *)
(* answers in a microtask, as the in-memory stores of this build do, and   *)
(* an actor keeps the event loop until it waits for something real: the    *)
(* planner, a skill, or nothing more.  With StoreSuspends = TRUE every     *)
(* await is an interleaving point, as the Promise interfaces allow.        *)
(***************************************************************************)
EXTENDS Naturals, Sequences, EventLog

CONSTANTS
    Execution,      \* submissions; one that is accepted is an execution
    CancelRequest,  \* cancel requests
    Key, NoKey,     \* idempotency keys, and a submission without one
    Content,        \* request contents (content and contentType together)
    NoRequest,      \* the request of a submission that was not made yet
    StepId, Plan, MaxAttempts, NoPlan,
    StoreSuspends,  \* TRUE: an await of a store is an interleaving point
    NoActor         \* nobody holds the event loop; no execution; no record

Actor == Execution \cup CancelRequest

ASSUME ActorAssumption ==
    /\ Execution \cap CancelRequest = {}
    /\ NoActor \notin Actor
    /\ NoKey \notin Key
    /\ MaxAttempts \in Nat \ {0}
    /\ StoreSuspends \in BOOLEAN

VARIABLES
    request,    \* the body each submission carries
    pc,         \* where the handler, then the background task, of it stands
    verdict,    \* the background task's locals committedState, validationResult
    records,    \* asyncRepo, byId
    byIdemKey,  \* asyncRepo, idempotency key -> execution
    events,     \* eventStore, the stream of each execution
    answer,     \* the executionId of the 202 reply
    session, cancelled, \* the supervisor
    cancels,    \* the cancel requests and their locals
    loop        \* the actor that holds the event loop

pipelineVars == <<request, verdict, byIdemKey, answer>>
supervisorVars == <<session, cancelled>>
vars == <<request, pc, verdict, records, byIdemKey, events, answer,
          session, cancelled, cancels, loop>>

Supervisor == INSTANCE ExecutionSupervisor WITH Session <- Execution

Request == [key : Key \cup {NoKey}, content : Content, schemaBound : BOOLEAN]

NoRecord == [state |-> "NONE", sessionKnown |-> FALSE, result |-> "none",
             validation |-> "NONE", evidence |-> {}]

\* createAsyncExecutionRecord(); the request snapshot stays in "request".
newRecord == [NoRecord EXCEPT !.state = "QUEUED"]

\* "null" is a result whose output is null, "output" one that carries what the
\* last step produced.
RecordType ==
    [state : PublicStates \cup {"NONE"}, sessionKnown : BOOLEAN,
     result : {"none", "null", "output"},
     validation : ValidationOutcomes \cup {"NONE"},
     evidence : SUBSET {"steps", "validation"}]

HandlerPoints == {"idle", "lookup", "save", "accept", "refused", "conflict", "replayed"}

TaskPoints ==
    {"admit", "announceAdmitted", "planning", "bindSession", "checkCancelled",
     "commitCancelled", "announceCancelled", "start", "announceStarted", "execute",
     "executing", "validate", "commit", "seedEvidence", "validationEvidence",
     "announceOutcome", "failRecord", "announceFailure", "done"}

CancelPoints == {"idle", "commit", "announce", "signal", "accepted", "refused", "failed"}

NoCancel == [pc |-> "idle", target |-> NoActor, sawSession |-> FALSE]

TypeOK ==
    /\ request \in [Execution -> Request \cup {NoRequest}]
    /\ pc \in [Execution -> HandlerPoints \cup TaskPoints]
    /\ verdict \in [Execution -> [state : TerminalStates \cup {"NONE"},
                                  validation : ValidationOutcomes \cup {"NONE"}]]
    /\ records \in [Execution -> RecordType]
    /\ byIdemKey \in [Key -> Execution \cup {NoActor}]
    /\ events \in [Execution -> Seq(EventKinds)]
    /\ answer \in [Execution -> Execution \cup {NoActor}]
    /\ Supervisor!TypeOK
    /\ cancels \in [CancelRequest -> [pc : CancelPoints, sawSession : BOOLEAN,
                                      target : Execution \cup {NoActor}]]
    /\ loop \in Actor \cup {NoActor}

Init ==
    /\ request = [e \in Execution |-> NoRequest]
    /\ pc = [e \in Execution |-> "idle"]
    /\ verdict = [e \in Execution |-> [state |-> "NONE", validation |-> "NONE"]]
    /\ records = [e \in Execution |-> NoRecord]
    /\ byIdemKey = [k \in Key |-> NoActor]
    /\ events = [e \in Execution |-> <<>>]
    /\ answer = [e \in Execution |-> NoActor]
    /\ Supervisor!Init
    /\ cancels = [c \in CancelRequest |-> NoCancel]
    /\ loop = NoActor

exists(e) == records[e].state # "NONE"

-----------------------------------------------------------------------------
(* The repository and the event store, as the handlers use them.           *)

\* assertNotTerminal(): every patch below sets a new state or a result, so
\* update() throws on a terminal record and is accepted on any other.
frozen(e) == records[e].state \in TerminalStates

goto(e, point) == pc' = [pc EXCEPT ![e] = point]

\* An update in the try block: a refusal throws into the catch block.
updateOrThrow(e, record, next) ==
    IF frozen(e)
    THEN goto(e, "failRecord") /\ UNCHANGED records
    ELSE goto(e, next) /\ records' = [records EXCEPT ![e] = record]

\* An append in the try block that is not followed by a catch of its own.
appendOrThrow(e, kind, next) ==
    IF terminated(events[e])
    THEN goto(e, "failRecord") /\ UNCHANGED events
    ELSE goto(e, next) /\ events' = [events EXCEPT ![e] = appended(@, kind)]

appendOrSwallow(e, kind) ==
    events' = [events EXCEPT ![e] = appendedIfOpen(@, kind)]

-----------------------------------------------------------------------------
(* POST /v1/executions.                                                     *)

\* Not ready, a missing field or a schema that admission rejects: no effect.
refuseSubmission(e) ==
    /\ pc[e] = "idle"
    /\ goto(e, "refused")
    /\ UNCHANGED <<pipelineVars, records, events, supervisorVars, cancels>>

submit(e, body) ==
    /\ pc[e] = "idle"
    /\ request' = [request EXCEPT ![e] = body]
    /\ goto(e, IF body.key = NoKey THEN "save" ELSE "lookup")
    /\ UNCHANGED <<verdict, records, byIdemKey, events, answer, supervisorVars, cancels>>

\* The idempotency check compares the content, and nothing else, of the bodies.
findByIdempotencyKey(e) ==
    /\ pc[e] = "lookup"
    /\ LET existing == byIdemKey[request[e].key]
       IN  IF existing = NoActor
           THEN goto(e, "save") /\ UNCHANGED answer
           ELSE IF request[existing].content # request[e].content
           THEN goto(e, "conflict") /\ UNCHANGED answer
           ELSE goto(e, "replayed") /\ answer' = [answer EXCEPT ![e] = existing]
    /\ UNCHANGED <<request, verdict, byIdemKey, records, events, supervisorVars, cancels>>

\* Mutant: the record is not indexed by its key.
saveUnindexed(e) ==
    /\ pc[e] = "save"
    /\ records' = [records EXCEPT ![e] = newRecord]
    /\ goto(e, "accept")
    /\ UNCHANGED <<request, verdict, byIdemKey, events, answer, supervisorVars, cancels>>

save(e) ==
    /\ pc[e] = "save"
    /\ records' = [records EXCEPT ![e] = newRecord]
    /\ byIdemKey' = IF request[e].key = NoKey THEN byIdemKey
                    ELSE [byIdemKey EXCEPT ![request[e].key] = e]
    /\ goto(e, "accept")
    /\ UNCHANGED <<request, verdict, events, answer, supervisorVars, cancels>>

\* The background task runs synchronously to its first await, then the reply
\* is sent.
accept(e) ==
    /\ pc[e] = "accept"
    /\ appendOrThrow(e, "EXECUTION_ACCEPTED", "admit")
    /\ answer' = [answer EXCEPT ![e] = e]
    /\ UNCHANGED <<request, verdict, byIdemKey, records, supervisorVars, cancels>>

handler(e) ==
    \/ refuseSubmission(e)
    \/ \E body \in Request : submit(e, body)
    \/ findByIdempotencyKey(e)
    \/ save(e)
    \/ accept(e)

-----------------------------------------------------------------------------
(* _runInBackground(), up to the call of the supervisor.                    *)

admit(e) ==
    /\ pc[e] = "admit"
    /\ updateOrThrow(e, [records[e] EXCEPT !.state = "ADMITTED"], "announceAdmitted")
    /\ UNCHANGED <<pipelineVars, events, supervisorVars, cancels>>

announceAdmitted(e) ==
    /\ pc[e] = "announceAdmitted"
    /\ appendOrThrow(e, "EXECUTION_ADMITTED", "planning")
    /\ UNCHANGED <<pipelineVars, records, supervisorVars, cancels>>

\* Mutant: an exception of the planner is not caught.
planAnswersOrEnds(e) ==
    /\ pc[e] = "planning"
    /\ goto(e, "bindSession") \/ goto(e, "done")
    /\ UNCHANGED <<pipelineVars, records, events, supervisorVars, cancels>>

\* Context manager, prediction manager and planner: they answer, or one throws.
planAnswers(e) ==
    /\ pc[e] = "planning"
    /\ \/ goto(e, "bindSession")
       \/ goto(e, "failRecord")
    /\ UNCHANGED <<pipelineVars, records, events, supervisorVars, cancels>>

\* A patch with neither state nor result is accepted on any record.
bindSession(e) ==
    /\ pc[e] = "bindSession"
    /\ records' = [records EXCEPT ![e].sessionKnown = TRUE]
    /\ goto(e, "checkCancelled")
    /\ UNCHANGED <<pipelineVars, events, supervisorVars, cancels>>

\* Mutant: the record is not read again after planning.
checkNothing(e) ==
    /\ pc[e] = "checkCancelled"
    /\ goto(e, "start")
    /\ UNCHANGED <<pipelineVars, records, events, supervisorVars, cancels>>

checkCancelled(e) ==
    /\ pc[e] = "checkCancelled"
    /\ goto(e, IF records[e].state = "CANCELLING" THEN "commitCancelled" ELSE "start")
    /\ UNCHANGED <<pipelineVars, records, events, supervisorVars, cancels>>

commitCancelled(e) ==
    /\ pc[e] = "commitCancelled"
    /\ updateOrThrow(e, [records[e] EXCEPT !.state = "CANCELLED", !.result = "null"],
                     "announceCancelled")
    /\ UNCHANGED <<pipelineVars, events, supervisorVars, cancels>>

announceCancelled(e) ==
    /\ pc[e] = "announceCancelled"
    /\ appendOrSwallow(e, "EXECUTION_CANCELLED")
    /\ goto(e, "done")
    /\ UNCHANGED <<pipelineVars, records, supervisorVars, cancels>>

\* Mutant: the record is not told that the execution runs.
startUnrecorded(e) ==
    /\ pc[e] = "start"
    /\ goto(e, "announceStarted")
    /\ UNCHANGED <<pipelineVars, records, events, supervisorVars, cancels>>

start(e) ==
    /\ pc[e] = "start"
    /\ updateOrThrow(e, [records[e] EXCEPT !.state = "RUNNING"], "announceStarted")
    /\ UNCHANGED <<pipelineVars, events, supervisorVars, cancels>>

\* Mutant: the event is forgotten.
announceNothing(e) ==
    /\ pc[e] = "announceStarted"
    /\ goto(e, "execute")
    /\ UNCHANGED <<pipelineVars, records, events, supervisorVars, cancels>>

announceStarted(e) ==
    /\ pc[e] = "announceStarted"
    /\ appendOrThrow(e, "EXECUTION_STARTED", "execute")
    /\ UNCHANGED <<pipelineVars, records, supervisorVars, cancels>>

-----------------------------------------------------------------------------
(* _runInBackground(), from the call of the supervisor to the end.          *)

\* The supervisor starts on the plan, or its scheduler throws.
execute(e) ==
    /\ pc[e] = "execute"
    /\ \E plan \in Plan :
           \/ Supervisor!begin(e, plan) /\ goto(e, "executing")
           \/ Supervisor!beginThrows(e, plan) /\ goto(e, "failRecord")
    /\ UNCHANGED <<pipelineVars, records, events, cancels>>

supervise(e) ==
    /\ pc[e] = "executing"
    /\ Supervisor!progress(e)
    /\ UNCHANGED <<pipelineVars, pc, records, events, cancels>>

\* execute() returns: project the final state and decide on a validation.
executeReturns(e) ==
    /\ pc[e] = "executing"
    /\ Supervisor!finished(e)
    /\ LET state == toPublicState(session[e].state)
           bound == request[e].schemaBound
       IN  /\ verdict' = [verdict EXCEPT ![e] =
                  [state      |-> state,
                   validation |-> IF bound THEN "NONE" ELSE "NOT_REQUESTED"]]
           /\ goto(e, IF state = "COMPLETED" /\ bound THEN "validate" ELSE "commit")
    /\ UNCHANGED <<request, byIdemKey, answer, records, events, supervisorVars, cancels>>

\* The output is valid or not, or the registry throws; INVALID means FAILED.
validate(e) ==
    /\ pc[e] = "validate"
    /\ \E outcome \in {"VALID", "INVALID", "NOT_EVALUATED"} :
           verdict' = [verdict EXCEPT ![e] =
               [state      |-> IF outcome = "INVALID" THEN "FAILED" ELSE @.state,
                validation |-> outcome]]
    /\ goto(e, "commit")
    /\ UNCHANGED <<request, byIdemKey, answer, records, events, supervisorVars, cancels>>

\* Mutant: the output is stored whatever its validation said.
commitOutput(e) ==
    /\ pc[e] = "commit"
    /\ updateOrThrow(e, [records[e] EXCEPT !.state = verdict[e].state, !.result = "output",
                                           !.validation = verdict[e].validation],
                     "seedEvidence")
    /\ UNCHANGED <<pipelineVars, events, supervisorVars, cancels>>

\* The terminal update, whatever the record's state has become meanwhile.
commit(e) ==
    /\ pc[e] = "commit"
    /\ updateOrThrow(e,
           [records[e] EXCEPT
               !.state = verdict[e].state,
               !.result = IF verdict[e].validation = "INVALID" THEN "null" ELSE "output",
               !.validation = verdict[e].validation],
           "seedEvidence")
    /\ UNCHANGED <<pipelineVars, events, supervisorVars, cancels>>

\* appendEvidence() is accepted on terminal records.
seedEvidence(e) ==
    /\ pc[e] = "seedEvidence"
    /\ records' = [records EXCEPT ![e].evidence = @ \cup {"steps"}]
    /\ goto(e, IF verdict[e].validation \in {"NONE", "NOT_REQUESTED"}
               THEN "announceOutcome" ELSE "validationEvidence")
    /\ UNCHANGED <<pipelineVars, events, supervisorVars, cancels>>

validationEvidence(e) ==
    /\ pc[e] = "validationEvidence"
    /\ records' = [records EXCEPT ![e].evidence = @ \cup {"validation"}]
    /\ goto(e, "announceOutcome")
    /\ UNCHANGED <<pipelineVars, events, supervisorVars, cancels>>

\* Mutant: the event is chosen by the supervisor's result.
announceSession(e) ==
    /\ pc[e] = "announceOutcome"
    /\ appendOrSwallow(e, TerminalKindOf(toPublicState(session[e].state)))
    /\ goto(e, "done")
    /\ UNCHANGED <<pipelineVars, records, supervisorVars, cancels>>

announceOutcome(e) ==
    /\ pc[e] = "announceOutcome"
    /\ appendOrSwallow(e, TerminalKindOf(verdict[e].state))
    /\ goto(e, "done")
    /\ UNCHANGED <<pipelineVars, records, supervisorVars, cancels>>

\* The catch block; a refused update is swallowed.
failRecord(e) ==
    /\ pc[e] = "failRecord"
    /\ records' = IF frozen(e) THEN records
                  ELSE [records EXCEPT ![e].state = "FAILED", ![e].result = "null"]
    /\ goto(e, "announceFailure")
    /\ UNCHANGED <<pipelineVars, events, supervisorVars, cancels>>

announceFailure(e) ==
    /\ pc[e] = "announceFailure"
    /\ appendOrSwallow(e, "EXECUTION_FAILED")
    /\ goto(e, "done")
    /\ UNCHANGED <<pipelineVars, records, supervisorVars, cancels>>

task(e) ==
    \/ admit(e) \/ announceAdmitted(e) \/ planAnswers(e)
    \/ bindSession(e) \/ checkCancelled(e)
    \/ commitCancelled(e) \/ announceCancelled(e)
    \/ start(e) \/ announceStarted(e) \/ execute(e) \/ supervise(e) \/ executeReturns(e)
    \/ validate(e) \/ commit(e) \/ seedEvidence(e) \/ validationEvidence(e)
    \/ announceOutcome(e) \/ failRecord(e) \/ announceFailure(e)

-----------------------------------------------------------------------------
(* POST /v1/executions/:executionId/cancel.                                 *)

\* findById(): the handler keeps this record and does not read it again.
requestCancel(c, e) ==
    /\ cancels[c].pc = "idle"
    /\ exists(e)
    /\ cancels' = [cancels EXCEPT ![c] =
           [pc |-> IF frozen(e) THEN "refused" ELSE "commit",
            target |-> e, sawSession |-> records[e].sessionKnown]]
    /\ UNCHANGED <<pipelineVars, pc, records, events, supervisorVars>>

\* Mutant: the update relies on the check made when the request came in.
commitCancellingUnchecked(c) ==
    /\ cancels[c].pc = "commit"
    /\ cancels' = [cancels EXCEPT ![c].pc = "announce"]
    /\ records' = [records EXCEPT ![cancels[c].target].state = "CANCELLING"]
    /\ UNCHANGED <<pipelineVars, pc, events, supervisorVars>>

\* A record that has become terminal refuses the update: the request fails.
commitCancelling(c) ==
    /\ cancels[c].pc = "commit"
    /\ LET e == cancels[c].target
       IN  IF frozen(e)
           THEN cancels' = [cancels EXCEPT ![c].pc = "failed"] /\ UNCHANGED records
           ELSE /\ cancels' = [cancels EXCEPT ![c].pc = "announce"]
                /\ records' = [records EXCEPT ![e].state = "CANCELLING"]
    /\ UNCHANGED <<pipelineVars, pc, events, supervisorVars>>

announceCancellation(c) ==
    /\ cancels[c].pc = "announce"
    /\ appendOrSwallow(cancels[c].target, "CANCELLATION_REQUESTED")
    /\ cancels' = [cancels EXCEPT ![c].pc =
                       IF cancels[c].sawSession THEN "signal" ELSE "accepted"]
    /\ UNCHANGED <<pipelineVars, pc, records, supervisorVars>>

signalSupervisor(c) ==
    /\ cancels[c].pc = "signal"
    /\ Supervisor!cancel(cancels[c].target)
    /\ cancels' = [cancels EXCEPT ![c].pc = "accepted"]
    /\ UNCHANGED <<pipelineVars, pc, records, events>>

cancelStep(c) ==
    commitCancelling(c) \/ announceCancellation(c) \/ signalSupervisor(c)

-----------------------------------------------------------------------------
(* The event loop.                                                          *)

\* The actor waits for something outside the process, or has nothing to do.
rests(a) ==
    IF a \in CancelRequest
    THEN cancels[a].pc \in {"idle", "accepted", "refused", "failed"}
    ELSE \/ pc[a] \in {"idle", "refused", "conflict", "replayed", "planning", "done"}
         \/ pc[a] = "executing" /\ session[a].invoking

mayRun(a) == StoreSuspends \/ loop \in {NoActor, a}

yields(a) == loop' = IF StoreSuspends \/ rests(a)' THEN NoActor ELSE a

executionStep(e) == mayRun(e) /\ (handler(e) \/ task(e)) /\ yields(e)

cancelRequestStep(c) ==
    /\ mayRun(c)
    /\ cancelStep(c) \/ \E e \in Execution : requestCancel(c, e)
    /\ yields(c)

\* Everything has been asked for and answered.
allAtRest ==
    /\ \A e \in Execution : pc[e] \in {"refused", "conflict", "replayed", "done"}
    /\ \A c \in CancelRequest : cancels[c].pc \in {"idle", "accepted", "refused", "failed"}

quiesce == allAtRest /\ UNCHANGED vars

Next ==
    \/ \E e \in Execution : executionStep(e)
    \/ \E c \in CancelRequest : cancelRequestStep(c)
    \/ quiesce

Spec == Init /\ [][Next]_vars

\* A started handler runs on, and the planner and every skill answer in the
\* end; nobody has to submit or to cancel.
Fairness ==
    /\ \A e \in Execution : WF_vars(executionStep(e) /\ pc[e] # "idle")
    /\ \A c \in CancelRequest : WF_vars(cancelRequestStep(c) /\ cancels[c].pc # "idle")

FairSpec == Spec /\ Fairness

-----------------------------------------------------------------------------
(* Properties that hold however the stores suspend.                         *)

\* A terminal record keeps its state, its result and its validation verdict: a
\* cancel that read it before it ended, and the catch block, cannot reopen it.
TerminalRecordsAreFinal ==
    [][\A e \in Execution : frozen(e) =>
           /\ records'[e].state = records[e].state
           /\ records'[e].result = records[e].result
           /\ records'[e].validation = records[e].validation]_vars

\* The stream and the record never tell different outcomes: a terminal event
\* is the last of its stream and names the state the record ended in, and a
\* finished task leaves both of them terminal.
OutcomeAgreesWithRecord ==
    \A e \in Execution :
        /\ \A i \in DOMAIN events[e] : events[e][i] \in TerminalKinds =>
               /\ i = Len(events[e])
               /\ frozen(e)
               /\ events[e][i] = TerminalKindOf(records[e].state)
        /\ pc[e] = "done" => frozen(e) /\ terminated(events[e])

\* A stream without its cancellation requests.
mainStory(log) ==
    LET upTo[i \in 0 .. Len(log)] ==
            IF i = 0 THEN <<>>
            ELSE IF log[i] = "CANCELLATION_REQUESTED" THEN upTo[i - 1]
            ELSE Append(upTo[i - 1], log[i])
    IN  upTo[Len(log)]

\* Cancellation requests aside, a stream is the beginning of one of the
\* stories an execution may have: it is never started twice, nor started after
\* an admission that was not announced, nor continued after its end; and the
\* evidence of a completed execution is in the record before the stream
\* announces the completion.
StreamTellsOneStory ==
    LET stories == {<<"EXECUTION_ACCEPTED", "EXECUTION_ADMITTED", k>> :
                        k \in {"EXECUTION_FAILED", "EXECUTION_CANCELLED"}}
                   \cup
                   {<<"EXECUTION_ACCEPTED", "EXECUTION_ADMITTED", "EXECUTION_STARTED", k>> :
                        k \in TerminalKinds}
    IN  \A e \in Execution :
            /\ \E story \in stories :
                   \E n \in 0 .. Len(story) : mainStory(events[e]) = SubSeq(story, 1, n)
            /\ \A i \in DOMAIN events[e] :
                   events[e][i] = "EXECUTION_COMPLETED" =>
                       /\ "steps" \in records[e].evidence
                       /\ request[e].schemaBound => "validation" \in records[e].evidence

\* An output that failed its schema is never served, and a typed execution is
\* COMPLETED only after its output was looked at; every terminal record has
\* the result without which GET .../result would answer "not ready" for ever.
InvalidOutputIsWithheld ==
    \A e \in Execution :
        /\ records[e].validation = "INVALID" =>
               records[e].state = "FAILED" /\ records[e].result = "null"
        /\ records[e].state = "COMPLETED" /\ request[e].schemaBound =>
               records[e].validation \in {"VALID", "NOT_EVALUATED"}
        /\ frozen(e) => records[e].result # "none"

\* Every execution that was accepted ends, and says so on its stream, whatever
\* throws on the way and whoever cancels it.
EveryExecutionEnds ==
    \A e \in Execution : exists(e) ~> frozen(e) /\ terminated(events[e])

-----------------------------------------------------------------------------
(* Properties of the in-memory build (StoreSuspends = FALSE).               *)

\* Two submissions with one idempotency key never both become executions, and
\* a replayed answer names an execution with the same key and content.
OneExecutionPerKey ==
    /\ \A e, f \in Execution :
           /\ e # f /\ exists(e) /\ exists(f)
           /\ request[e].key # NoKey
           => request[e].key # request[f].key
    /\ \A e \in Execution : answer[e] # NoActor =>
           /\ exists(answer[e])
           /\ request[answer[e]].key = request[e].key
           /\ request[answer[e]].content = request[e].content

\* The sessionId gap is closed: an accepted cancel either came before the
\* session was known, and then no skill is ever invoked, or it has signalled
\* the supervisor; and while the record says CANCELLING, a running supervisor
\* has been told.  Whoever reads the stream learns of a cancellation before its
\* outcome.
AcceptedCancelTakesEffect ==
    /\ \A c \in CancelRequest : cancels[c].pc = "accepted" =>
           LET e == cancels[c].target
           IN  IF cancels[c].sawSession THEN e \in cancelled
               ELSE session[e].state = "NONE"
    /\ \A e \in Execution :
           loop = NoActor /\ records[e].state = "CANCELLING" /\ pc[e] = "executing"
               => e \in cancelled
    /\ \A e \in Execution : \A i \in DOMAIN events[e] :
           events[e][i] = "EXECUTION_CANCELLED" =>
               \E j \in 1 .. i : events[e][j] = "CANCELLATION_REQUESTED"

\* The public life of an execution, as ExecutionLifecycle states it.
Lifecycle == INSTANCE ExecutionLifecycle WITH
    phase     <- [e \in Execution |-> records[e].state],
    announced <- [e \in Execution |-> terminated(events[e])]

ImplementsLifecycle == Lifecycle!Spec

\* The comment above the cancel handler's update: CANCELLING committed before
\* the terminal completion makes the cancellation win, so an execution whose
\* cancel was accepted never ends COMPLETED.
AcceptedCancelWins ==
    \A c \in CancelRequest :
        cancels[c].pc = "accepted" => records[cancels[c].target].state # "COMPLETED"
=============================================================================
