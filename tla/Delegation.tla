----------------------------- MODULE Delegation -----------------------------
(***************************************************************************)
(* Agent runs and the tasks they delegate: the routes under                *)
(* /v1/agent-runs and /v1/delegations, the certificate, task and run       *)
(* services they call, the agent event store by which a delegating run     *)
(* resumes, and the background execution of a delegated task.              *)
(*                                                                         *)
(* The services await in-memory maps only, so a handler is one action; the *)
(* background task is suspended once, while the router works on it.        *)
(***************************************************************************)
EXTENDS ExecutionProtocol

CONSTANTS
    Run,            \* agent runs
    Task,           \* delegated tasks, in the order they are proposed or not
    DelegationId,   \* delegation ids; a client may send one and reuse it
    NoRun, NoId     \* the delegator and the delegation of a task not proposed

ASSUME DelegationAssumption ==
    /\ NoRun \notin Run
    /\ NoId \notin DelegationId

VARIABLES
    runs,           \* the run repository: the state of each run
    tasks,          \* the delegated task repository
    revoked,        \* the tasks whose certificate is revoked
    agentEvents,    \* the agent event store
    records,        \* asyncRepo: the execution record of each task
    callers         \* the clients that wait in runAndWaitTyped()

vars == <<runs, tasks, revoked, agentEvents, records, callers>>

\* The part of the run life cycle that the routes use: no route lets a run
\* wait, block, suspend, complete or fail.
AgentRunTransitions ==
    [NONE |-> {"ADMITTED"}, ADMITTED |-> {"READY", "CANCELLED"},
     READY |-> {"RUNNING", "CANCELLED"}, RUNNING |-> {"DELEGATING", "CANCELLED"},
     DELEGATING |-> {"RUNNING", "CANCELLED"}, CANCELLED |-> {}]

\* Mutant: a submission may be repeated.
RepeatedSubmissions ==
    [NONE |-> {"OFFERED"},
     OFFERED |-> {"ACCEPTED", "REJECTED_RESULT", "CANCELLED"},
     ACCEPTED |-> {"RUNNING", "CANCELLED"}, RUNNING |-> {"SUBMITTED", "CANCELLED"},
     SUBMITTED |-> {"SUBMITTED", "ACCEPTED_RESULT", "REJECTED_RESULT"},
     ACCEPTED_RESULT |-> {}, REJECTED_RESULT |-> {}, CANCELLED |-> {}]

\* A task is proposed and offered in one request, and no route fails it.
DelegatedTaskTransitions ==
    [NONE |-> {"OFFERED"},
     OFFERED |-> {"ACCEPTED", "REJECTED_RESULT", "CANCELLED"},
     ACCEPTED |-> {"RUNNING", "CANCELLED"}, RUNNING |-> {"SUBMITTED", "CANCELLED"},
     SUBMITTED |-> {"ACCEPTED_RESULT", "REJECTED_RESULT"},
     ACCEPTED_RESULT |-> {}, REJECTED_RESULT |-> {}, CANCELLED |-> {}]

ResolvedStates == {"ACCEPTED_RESULT", "REJECTED_RESULT", "CANCELLED"}

ActiveKinds == {"delegation-offered", "delegation-accepted", "delegation-run",
                "result-submitted"}

\* Mutant: a cancelled delegation does not count as resolved.
CancellationsBlock == {"result-accepted", "result-rejected"}

TerminalEventKinds == {"result-accepted", "result-rejected", "delegation-cancelled"}

AgentEvent == [kind : ActiveKinds \cup TerminalEventKinds \cup {"delegation-proposed"},
               run : Run, delegation : DelegationId]

\* Who produced the submitted result: the delegatee, or the router, whose
\* result is replaced by "[no output]" when it throws.
Answers == {"none", "delegatee", "output", "[no output]"}

NoTask == [state |-> "NONE", run |-> NoRun, delegation |-> NoId, answer |-> "none"]

NoExecution == [state |-> "NONE", schemaBound |-> FALSE, validation |-> "NONE"]

TypeOK ==
    /\ runs \in [Run -> DOMAIN AgentRunTransitions]
    /\ tasks \in [Task -> [state : DOMAIN DelegatedTaskTransitions, run : Run \cup {NoRun},
                           delegation : DelegationId \cup {NoId}, answer : Answers]]
    /\ revoked \subseteq Task
    /\ agentEvents \subseteq AgentEvent
    /\ records \in [Task -> [state : PublicStates \cup {"NONE"}, schemaBound : BOOLEAN,
                             validation : ValidationOutcomes \cup {"NONE"}]]
    /\ callers \in [Task -> {"none", "polling", "typed", "unvalidated", "not ready"}]

Init ==
    /\ runs = [r \in Run |-> "NONE"]
    /\ tasks = [t \in Task |-> NoTask]
    /\ revoked = {}
    /\ agentEvents = {}
    /\ records = [t \in Task |-> NoExecution]
    /\ callers = [t \in Task |-> "none"]

-----------------------------------------------------------------------------
(* The services.                                                            *)

\* AgentRunLifecycleService.transition(): already there counts as done.
mayTransition(r, state) == runs[r] = state \/ state \in AgentRunTransitions[runs[r]]

\* DelegatedTaskService._transition().
mayBecome(t, state) == state \in DelegatedTaskTransitions[tasks[t].state]

transitionTask(t, state) == tasks' = [tasks EXCEPT ![t].state = state]

event(t, kind) == [kind |-> kind, run |-> tasks[t].run, delegation |-> tasks[t].delegation]

\* AgentEventStore.append(); the order of the events is not looked at.
append(t, kind) == agentEvents' = agentEvents \cup {event(t, kind)}

kindsOf(d) == {e.kind : e \in {e \in agentEvents : e.delegation = d}}

siblings(r, d) ==
    {e.delegation : e \in {e \in agentEvents : e.kind = "delegation-proposed" /\ e.run = r}}
        \ {d}

\* Mutant: only a delegation whose result was submitted blocks its siblings.
blocksOnceSubmitted(d) ==
    /\ kindsOf(d) \cap TerminalEventKinds = {}
    /\ "result-submitted" \in kindsOf(d)

\* A delegation blocks once it was active, until any of its events is terminal.
blocks(d) ==
    /\ kindsOf(d) \cap TerminalEventKinds = {}
    /\ kindsOf(d) \cap ActiveKinds # {}

canResumeFromDelegating(r, d) == \A s \in siblings(r, d) : ~ blocks(s)

\* What accepting a result and cancelling a delegation do to the delegator.
resumeDelegator(t) ==
    LET r == tasks[t].run
    IN  IF canResumeFromDelegating(r, tasks[t].delegation) /\ mayTransition(r, "RUNNING")
        THEN runs' = [runs EXCEPT ![r] = "RUNNING"]
        ELSE UNCHANGED runs

-----------------------------------------------------------------------------
(* Agent runs.                                                              *)

admit(r) ==
    /\ runs[r] = "NONE"
    /\ runs' = [runs EXCEPT ![r] = "ADMITTED"]
    /\ UNCHANGED <<tasks, revoked, agentEvents, records, callers>>

\* Through READY, in one request.
startRun(r) ==
    /\ mayTransition(r, "READY")
    /\ runs' = [runs EXCEPT ![r] = "RUNNING"]
    /\ UNCHANGED <<tasks, revoked, agentEvents, records, callers>>

\* The tasks of the run are not looked at.
cancelRun(r) ==
    /\ mayTransition(r, "CANCELLED")
    /\ runs' = [runs EXCEPT ![r] = "CANCELLED"]
    /\ UNCHANGED <<tasks, revoked, agentEvents, records, callers>>

\* Certificate issued, task proposed and offered.  A run that is delegating
\* already may delegate again.
delegate(r, t, d) ==
    /\ mayTransition(r, "DELEGATING")
    /\ tasks[t].state = "NONE"
    /\ runs' = [runs EXCEPT ![r] = "DELEGATING"]
    /\ tasks' = [tasks EXCEPT ![t] = [NoTask EXCEPT !.state = "OFFERED", !.run = r,
                                                    !.delegation = d]]
    /\ agentEvents' = agentEvents \cup
           {[kind |-> k, run |-> r, delegation |-> d] :
                k \in {"delegation-proposed", "delegation-offered"}}
    /\ UNCHANGED <<revoked, records, callers>>

\* issueCertificate() throws on an attenuation violation; the rollback does not
\* ask whether the run was delegating before.
delegateBeyondAuthority(r) ==
    /\ mayTransition(r, "DELEGATING")
    /\ runs' = [runs EXCEPT ![r] = "RUNNING"]
    /\ UNCHANGED <<tasks, revoked, agentEvents, records, callers>>

\* A request without a body: the run has moved on when the body is first read,
\* outside the try block, and nothing moves it back.
delegateWithoutBody(r) ==
    /\ mayTransition(r, "DELEGATING")
    /\ runs' = [runs EXCEPT ![r] = "DELEGATING"]
    /\ UNCHANGED <<tasks, revoked, agentEvents, records, callers>>

-----------------------------------------------------------------------------
(* Delegations.                                                             *)

acceptDelegation(t) ==
    /\ mayBecome(t, "ACCEPTED")
    /\ transitionTask(t, "ACCEPTED")
    /\ append(t, "delegation-accepted")
    /\ UNCHANGED <<runs, revoked, records, callers>>

\* The record is saved as QUEUED and, the background task being entered in the
\* same turn of the event loop, RUNNING when the reply is sent.  The caller
\* that bound a schema waits for a validated result.
runDelegation(t) ==
    /\ mayBecome(t, "RUNNING")
    /\ transitionTask(t, "RUNNING")
    /\ append(t, "delegation-run")
    /\ \E schemaBound \in BOOLEAN :
           /\ records' = [records EXCEPT ![t] = [NoExecution EXCEPT
                              !.state = "RUNNING", !.schemaBound = schemaBound]]
           /\ callers' = [callers EXCEPT ![t] = IF schemaBound THEN "polling" ELSE @]
    /\ UNCHANGED <<runs, revoked>>

submitted(t, answer) == [tasks EXCEPT ![t].state = "SUBMITTED", ![t].answer = answer]

\* POST .../results, from the delegatee.
submitResult(t) ==
    /\ mayBecome(t, "SUBMITTED")
    /\ tasks' = submitted(t, "delegatee")
    /\ append(t, "result-submitted")
    /\ UNCHANGED <<runs, revoked, records, callers>>

acceptResult(t) ==
    /\ mayBecome(t, "ACCEPTED_RESULT")
    /\ transitionTask(t, "ACCEPTED_RESULT")
    /\ append(t, "result-accepted")
    /\ resumeDelegator(t)
    /\ UNCHANGED <<revoked, records, callers>>

\* The delegator stays where it is: it delegates again, or is cancelled.
rejectResult(t) ==
    /\ mayBecome(t, "REJECTED_RESULT")
    /\ transitionTask(t, "REJECTED_RESULT")
    /\ append(t, "result-rejected")
    /\ UNCHANGED <<runs, revoked, records, callers>>

\* The certificate is revoked before the task service may refuse.
cancelDelegation(t) ==
    /\ tasks[t].state # "NONE"
    /\ revoked' = revoked \cup {t}
    /\ IF mayBecome(t, "CANCELLED")
       THEN /\ transitionTask(t, "CANCELLED")
            /\ append(t, "delegation-cancelled")
            /\ resumeDelegator(t)
       ELSE UNCHANGED <<runs, tasks, agentEvents>>
    /\ UNCHANGED <<records, callers>>

-----------------------------------------------------------------------------
(* The execution of a delegated task.                                       *)

\* POST /v1/executions/:id/cancel on the record of a task; there is no session
\* to signal, and the background task does not look at the state.
cancelExecution(t) ==
    /\ records[t].state = "RUNNING"
    /\ records' = [records EXCEPT ![t].state = "CANCELLING"]
    /\ UNCHANGED <<runs, tasks, revoked, agentEvents, callers>>

routing(t) == records[t].state \in {"RUNNING", "CANCELLING"}

\* Mutant: the result is submitted only when the execution succeeded.
executionEndsQuietly(t, state, answer) ==
    /\ routing(t)
    /\ records' = [records EXCEPT ![t].state = state]
    /\ IF mayBecome(t, "SUBMITTED") /\ state = "COMPLETED"
       THEN tasks' = submitted(t, answer) /\ append(t, "result-submitted")
       ELSE UNCHANGED <<tasks, agentEvents>>
    /\ UNCHANGED <<runs, revoked, callers>>

\* Mutant: the submission is announced although it was refused.
executionEndsLoudly(t, state, answer) ==
    /\ routing(t)
    /\ records' = [records EXCEPT ![t].state = state]
    /\ append(t, "result-submitted")
    /\ IF mayBecome(t, "SUBMITTED") THEN tasks' = submitted(t, answer) ELSE UNCHANGED tasks
    /\ UNCHANGED <<runs, revoked, callers>>

\* The router is done: the record first, then the submission, which is refused
\* when the task was answered or cancelled meanwhile.
executionEnds(t, state, answer) ==
    /\ routing(t)
    /\ records' = [records EXCEPT ![t].state = state]
    /\ IF mayBecome(t, "SUBMITTED")
       THEN tasks' = submitted(t, answer) /\ append(t, "result-submitted")
       ELSE UNCHANGED <<tasks, agentEvents>>
    /\ UNCHANGED <<runs, revoked, callers>>

\* A skill that fails, or none that matches, is a result like any other.
routeReturns(t) == executionEnds(t, "COMPLETED", "output")

routeThrows(t) == executionEnds(t, "FAILED", "[no output]")

background(t) == routeReturns(t) \/ routeThrows(t)

\* runAndWaitTyped() asks for the result when the record is terminal, or when
\* its patience is over; without a validation verdict it throws.
fetchTypedResult(t) ==
    /\ callers[t] = "polling"
    /\ callers' = [callers EXCEPT ![t] =
           IF records[t].state \notin TerminalStates THEN "not ready"
           ELSE IF records[t].validation = "VALID" THEN "typed"
           ELSE "unvalidated"]
    /\ UNCHANGED <<runs, tasks, revoked, agentEvents, records>>

-----------------------------------------------------------------------------

runStep(r) ==
    \/ admit(r) \/ startRun(r) \/ cancelRun(r)
    \/ delegateBeyondAuthority(r) \/ delegateWithoutBody(r)
    \/ \E t \in Task, d \in DelegationId : delegate(r, t, d)

taskStep(t) ==
    \/ acceptDelegation(t) \/ runDelegation(t)
    \/ submitResult(t) \/ acceptResult(t) \/ rejectResult(t) \/ cancelDelegation(t)
    \/ cancelExecution(t) \/ fetchTypedResult(t)
    \/ background(t)

Next == (\E r \in Run : runStep(r)) \/ (\E t \in Task : taskStep(t))

Spec == Init /\ [][Next]_vars

\* The router answers in the end, as TimeoutExecutor sees to; no client has to
\* do anything.
FairSpec == Spec /\ \A t \in Task : WF_vars(background(t))
-----------------------------------------------------------------------------
(* Properties.                                                              *)

ActiveStates == {"OFFERED", "ACCEPTED", "RUNNING", "SUBMITTED"}

tasksOf(r) == {t \in Task : tasks[t].run = r}

\* The delegations of a client that reuses an id cannot be told apart.
unshared(t) == \A u \in Task \ {t} : tasks[u].delegation # tasks[t].delegation

\* A delegator that resumes because one of its tasks was resolved has no other
\* task under way: canResumeFromDelegating() reads the event log, and the log
\* must know of every sibling, in whatever order they finish.  (A delegation
\* that is refused puts the run back to RUNNING without asking, and so is no
\* resumption of this kind.)
ResumeWaitsForSiblings ==
    [][\A r \in Run, t \in Task :
           /\ runs[r] = "DELEGATING" /\ runs'[r] = "RUNNING"
           /\ tasks'[t] # tasks[t]
           => \A u \in tasksOf(r) \ {t} :
                  unshared(u) => tasks'[u].state \notin ActiveStates]_vars

\* The run has a task that can still take it out of DELEGATING: one under way,
\* or a rejected result, which is the delegator's to answer.
hasOpenTask(r) ==
    \E t \in tasksOf(r) : tasks[t].state \in ActiveStates \cup {"REJECTED_RESULT"}

\* Whatever ends the last open task of a delegating run resumes the run.  Each
\* task that ends checks for siblings once, in the event log, so if two that end
\* shortly after each other both took the other to be under way, or the log and
\* the tasks disagreed, the run would be left in DELEGATING by the last of them.
\* (A request without a body puts a run into DELEGATING with no task at all, and
\* of that the property says nothing: see DelegatingMeansDelegated.)
NoStrandedDelegator ==
    [][\A r \in Run :
           runs'[r] = "DELEGATING" /\ hasOpenTask(r) => hasOpenTask(r)']_vars

\* What does not hold: a run in DELEGATING has a task that can take it out.  A
\* request without a body leaves it there (delegateWithoutBody) until it delegates
\* again or is cancelled.
DelegatingMeansDelegated == \A r \in Run : runs[r] = "DELEGATING" => hasOpenTask(r)

\* GET /v1/delegations/:id/evidence tells what became of the task: routes and
\* background task each change the task and then append, or are refused and do
\* neither.  And a task whose certificate is revoked is over or answered: the
\* cancel route revokes first, so a refusal by the task service must not leave a
\* task that may still be accepted, run or be handed in without a certificate.
EvidenceTellsTheTask ==
    /\ \A t \in revoked : tasks[t].state \in ResolvedStates \cup {"SUBMITTED"}
    /\ \A t \in Task :
           tasks[t].state # "NONE" /\ unshared(t) =>
               LET kinds == kindsOf(tasks[t].delegation)
               IN  /\ "result-submitted" \in kinds <=> tasks[t].answer # "none"
                   /\ "result-accepted" \in kinds <=> tasks[t].state = "ACCEPTED_RESULT"
                   /\ "result-rejected" \in kinds <=> tasks[t].state = "REJECTED_RESULT"
                   /\ "delegation-cancelled" \in kinds <=> tasks[t].state = "CANCELLED"

\* The delegatee and the background task may both hand in a result; the first
\* one counts, and what the delegator accepts is what it was shown.
AnswersAreFinal ==
    [][\A t \in Task : tasks[t].answer # "none" => tasks'[t].answer = tasks[t].answer]_vars

\* A task that runs is answered or cancelled in the end and its execution record
\* is final: the background task hands in something whatever the router did.
StartedTasksSettle ==
    \A t \in Task :
        tasks[t].state = "RUNNING" ~>
            (tasks[t].state # "RUNNING" /\ records[t].state \in TerminalStates)

\* "Typed delegated results remain subject to Stage 16C validation" and "the
\* server is the authoritative validator" (AFS-016D.md:37): a caller that bound
\* a schema and reads the result of an ended execution finds a verdict in it.
TypedDelegationIsValidated == \A t \in Task : callers[t] # "unvalidated"
=============================================================================
