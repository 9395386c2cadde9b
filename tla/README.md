# TLA+ models of the Rohinik runtime

This directory holds the formal models of the runtime's server side: TLA+
modules translated from the TypeScript under `src/`, TLC configurations that
check them on small instances, and TLAPS proofs. `PROJECT.json` maps every
definition to the lines it models and lists runs, mutants, findings, hazards and
theorems.

## 1. The system

A Fastify server (`core/runtime/server`) exposes a runtime host over HTTP. One
Node process, one event loop; the stores are in-memory classes behind Promise
interfaces. Beside it stand libraries with a protocol of their own: the executor
of workflow plans, which writes files, and the package quarantine.

| Component | State | Operations | Talks to |
|---|---|---|---|
| Execution protocol (`protocol/execution-v1`, `execution-protocol-mapper`) | none | public states, event kinds, projection of internal states | everything below |
| Async execution routes (`routes/async-executions.ts`) | locals of handlers and of a background task per execution | submit, cancel, `_runInBackground` | repository, event store, planner, supervisor, schema registry |
| Async repository | records by id, by idempotency key, by session | save, update (terminal guard), appendEvidence, find | routes |
| Async event store | an append-only log per execution, terminal flags, push functions of subscribers | append, list, listAfter, subscribe | routes, SSE |
| SSE route (`routes/execution-events.ts`) | one loop per connection | open with cursor, deliver, close | event store, clients |
| Supervisor, scheduler (`runtime/execution`) | sessions, the set of cancelled sessions | execute, cancel; topological sort | kernel step engine |
| Kernel step engine (`kernel/src/engine`, `skill-invoker.ts`) | none across steps; skills that run on after a timeout | budget, timeout, retry, fallback | skills, skill registry |
| Agents and delegation (`routes/agents.ts`, `agent-delegation`, `agent-runtime`) | runs, delegated tasks, certificates, agent events | delegate, accept, run, submit, accept/reject result, cancel | async repository, router |
| Control plane (`control-*`, `routes/control.ts`, SDK) | artifacts, approvals, denials, checkpoints, workflows, evidence log | register, approve, deny, create, apply, verify, recover, cancel | clients through the SDK |
| Workflow plan executor (`execution/executor`) | the run, its journal and event bus; checkpoint and result files | execute, events, wait, resume | providers, file system |
| Package quarantine (`package-quarantine`) | artifacts by location, locks by operation, results by operation | quarantine | storage, lock and result ports |
| Coordination, oversight (`agent-coordination`, `agent-oversight`) | mailboxes, teams, claims, barriers, requests, decisions | send, claim, decide | no caller yet |
| The rest | | acquisition and trust of packages, memory and learning, autonomy, distribution, compiler, shell, drivers, applications | |

What is hard in it, and what correctness means there:

- **Async execution.** Two handlers and a background task read and write one
  record with awaits in between; a cancel may fall anywhere. Correct: a final
  record is never reopened; record and stream tell one outcome, once, with the
  evidence there before the announcement; an invalid output is never served; an
  accepted cancel reaches the supervisor or prevents it from starting; a key
  stands for one execution; every accepted execution ends whatever throws.
- **Event stream.** Replay, live delivery, lost connections and cursors. Correct:
  a client gets each event exactly once and in order over any number of
  reconnections; a stream the server closed is complete; a subscriber learns
  the end.
- **Supervisor and step engine.** Retries at two levels, timeouts that stop
  nobody, failures and cancellations that leave the loop in four places.
  Correct: dependencies first, refusal of exactly the unorderable plans, a verdict
  the step records explain, no new step after a cancel, nothing repeated after a
  success or a final failure that was heard in time, a bound on what timeouts leave
  running.
- **Delegation.** Parent runs that resume when the event log shows no blocking
  sibling; a background run that nobody awaits and that competes with answers and
  cancellations. Correct: the last open task of a run resumes it, and none resumes
  it early; the first answer counts; the evidence tells what became of the task.
- **Control plane.** Requests throw half way, are repeated and come in any order.
  Correct: no mutation without a valid approval, at most one mutation per
  workflow, no automatic recovery without a cause, a final record is frozen, the
  evidence log tells the outcome.
- **Plan executor.** The only component here that writes files: the process may
  stop between any two steps and in the middle of a write. Correct: a checkpoint
  that can be read claims what was done; result, journal and what readers saw
  are one story.
- **Quarantine.** A plan of port calls, each of which may be refused, over an
  artifact that other requests move, copy and deactivate, under other locks and
  sometimes in the same place. Correct: a recorded
  quarantine is contained and stays so; an outcome does not deny that the
  artifact was moved; locks have one holder; every request is answered.

Nothing else is persisted, so `PlanExecutor` is the one model with crashes.

## 2. Modules

| Module | Models |
|---|---|
| `ExecutionProtocol` | states, event kinds, projection |
| `EventLog` | one stream of the event store, shared by producers and consumers |
| `TaskScheduler` | Kahn's algorithm as functions over a plan |
| `ExecutionSupervisor` | sessions: begin, step, retry, fail, cancel, complete |
| `StepEngine` | an invocation below the supervisor; composes and refines `ExecutionSupervisor` |
| `ExecutionLifecycle` | abstract: the public life of an execution |
| `AsyncExecution` | the pipeline, over `EventLog` and an instance of `ExecutionSupervisor`; refines `ExecutionLifecycle` |
| `EventFeed` | abstract: a log that grows and clients that learn it in order |
| `ExecutionEventStream` | subscriptions, SSE connections and clients, over `EventLog`; refines `EventFeed` |
| `Delegation` | agent runs, delegated tasks and their background execution |
| `ControlPlane` | the control-plane routes over their engines |
| `PlanExecutor` | the plan executor, its readers, files and crashes |
| `PackageQuarantine` | quarantine requests over ports that may refuse |
| `...Proofs` | theorems about the module of that name |
| `MC...` | constants for TLC |

**`AsyncExecution`.** `pc[e]` says before which await the submission's handler,
and then its background task, stands; each action is the code from there to the
next await, with the name of the step. `records`, `byIdemKey` are the repository;
`events` the event store; `verdict` the task's locals; `cancels[c]` a cancel
request with the record it read (`sawSession` is its stale
`internalSessionId`). `updateOrThrow` and `appendOrThrow` are calls inside the try
block: a refusal goes to the catch block (`failRecord`, `announceFailure`).
`loop` is the actor that holds the event loop: with `StoreSuspends = FALSE` an
actor keeps it until it waits for the planner or a skill or is done, which is
how awaits of already resolved promises behave in Node as long as requests
arrive as events of their own; with `TRUE` every await lets anyone in.
Planner, context manager and prediction manager answer or throw; a schema
validation answers VALID, INVALID or throws.

**`ExecutionSupervisor`.** `session[s]` joins the stored session with the loop's
locals. A step runs from the answer of an invocation to the loop head or the
next invocation. Outcomes: success, failure (retryable or not), timeout.
The budget outcome is a failure that is not retryable. Journal events are left
out.

**`StepEngine`.** Extends the supervisor's state by what an invocation is:
`engine[s]` is the engine's call (idle, awaiting the primary or the fallback
skill at an attempt, answered). What the catalog has under the fallback's id is
looked up when a fallback is due, and may be anything (`CatalogEntries`). The race of
`TimeoutExecutor` is won by `skillAnswers` or `timerFires`; the loser's skill is
counted in `abandoned`, under its step, until its `lateAnswer`, which may be a
success. `respond` hands the answer to the
supervisor's own actions of the instance `Supervisor`. `invoked`, `said` and `late`
are history: how often a step started each skill, whether one was heard to succeed
or to declare its failure final, and whether one succeeded when nobody listened any
more.

**`ExecutionEventStream`.** An event is its sequence number. `conn[n]` holds the
route's locals (`afterSequence`, the subscription's `queue`), the `wire` to the
client and whether the client has gone (`gone...` states: the loop goes on and
writes nothing). A broken connection loses what is on the wire; the client comes
back with the cursor of the last event it received, or with one of another
execution, which is refused.

**`Delegation`.** A handler is one action, as its services await in-memory maps
only. `runDelegation` saves the record, replies, and leaves the background task
before its one real suspension, the router; `routeReturns` and `routeThrows` are
the rest of it: first the record, then the submission, which the task service
may refuse. `agentEvents` is the agent event store, a set, as
`canResumeFromDelegating` asks only for kinds. A delegation whose certificate is
refused is `delegateBeyondAuthority`; a request without a body is
`delegateWithoutBody`, which throws between the run's transition and anything that
could undo it. `callers` is the SDK's `runAndWaitTyped`.

**`ControlPlane`.** One action per request, as nothing in a handler really
suspends (two requests that one read of a socket delivers together would interleave
at their awaits; the SDK sends none such), and one action for every point where a request throws after it has
changed something (`applyUnapproved`, `applyWithoutCheckpoint`, `applyTooLate`,
`verifyMalformed`, `recoverRefused`). Requests that are refused before any
change are left out. `expire` is the clock. `handle` is the state that a client's
`WorkflowHandle` shows; `dirtyAtApply` is a history variable. SKIPPED and ERROR
verdicts are treated as FAILED is. Request bodies are
well typed, but for `status` of a verdict, whose unknown values the engine handles.

**`PlanExecutor`.** `run.pc` is the await before which `_run()` or the step
executor stands. The checkpoint and the result are files that survive: `Absent`,
`Torn` (opened by `writeFile`, which truncates, and not yet written) or their
content; `crash` may fall anywhere, also between `saveCheckpoint` and
`checkpointSaved`. `bus` is the event bus with one queue per iterator;
`subscribe` copies the history. `resume` does what the code does with a
checkpoint and a result.

**`PackageQuarantine`.** One action per awaited port call. `stepsOf(mode)` is the
containment plan, `checksOf(mode)` the calls of the verifier; `job[r]` are the
locals of one `quarantine()`. With `PortsFail` every call may be refused; a call
is `impossible` when what it needs is not there. The requested decisions and
policies are `Demand`. A lock goes by the operation's name as it is; the destination
goes by `locationOf[o]`, what `resolveQuarantineLocation` makes of the name: `/`, runs
of spaces and `..` all become `-`, so that `op/1` and `op-1` lie in one place.
`locationOf` is any function, and nothing is assumed of it. What is assumed is
that there is one artifact, that all requests name it where it lies, which is no
destination, and that they use one namespace prefix.

## 3. Runs

| Run | Instance | States | Shows |
|---|---|---|---|
| `supervisor` | one session, every plan of up to 3 steps with any dependencies (also unknown and cyclic), 2 attempts | 10,141 | scheduler order, refusal of exactly the unorderable plans, sound orders for the others, verdicts, cancellation, termination |
| `step_engine` | one session, a chain of two steps and a cyclic plan, 2 attempts at either level | 1,422,308 | refinement of the supervisor (liveness included), a success or final failure that is heard ends a step, late skills are bounded |
| `async_in_memory` | 2 submissions, 1 key, 2 contents, 1 cancel, in-memory stores; plans: empty, chain of two, cycle | | idempotency, effect of an accepted cancel, `CANCELLATION_REQUESTED` before `EXECUTION_CANCELLED`, refinement of `ExecutionLifecycle` |
| `async_any_store` | 1 execution, 2 cancels, every await suspends | | record and stream agree, one story with the evidence first, withheld output, final records, every execution ends |
| `event_stream` | 1 client, 2 executions with streams of up to 3 events, 2 connections | 51,451 | exactly once in order, complete streams, refinement of `EventFeed`, every subscriber learns the end |
| `delegation` | 1 run, 2 tasks, 2 delegation ids that may be reused | 299,621 | the last open task resumes the delegator and none resumes it early, evidence, first answer counts, started tasks settle |
| `control_plane` | 1 workflow, 2 artifacts, 2 approvals, 2 checkpoints, 1 key | | approval, one mutation, recovery, evidence, frozen records |
| `plan_executor` | 2 steps, 1 retry, 2 readers, a crash anywhere | 98,905 | checkpoint, result and readers against the journal, iterators end |
| `quarantine` | 2 requests, 3 operations of which 2 share a destination, 10 demands that reach every mode, with and without verification, ports that refuse any call | 1,266,949 | containment, outcomes that tell the move, lock holders, answers |

Why the bounds suffice: executions interact only through a shared idempotency
key, for which two are needed; two cancels can overlap each other and the task;
three steps give chains, forks, joins and all cycle shapes; two attempts give one
retry that succeeds or is the last, at both levels of the step engine, and two
steps let a skill abandoned by one run on beside the next and succeed between any two
later attempts; two connections of one client
give a resumption, or two executions followed at once; `MaxEvents = 3` leaves
events before, between and after a loss. A run and its tasks share nothing with
another run; two tasks are a task and its sibling. A control-plane request reads no other
workflow's record; two approvals and checkpoints make the wrong one nameable.
`MaxEvidence` bounds only repeated creations. Two plan steps let a checkpoint
cover part of the work, and two readers come early and late. Two quarantine
requests are one operation sent twice, two with a destination each, or two that share
one; a third could only do what one of the two may do at that moment. The theorems of section
5 do not have these bounds.

`control_plane` uses symmetry of artifacts, approvals and checkpoints, and checks
no liveness property; the runs with liveness use none. Deadlock is checked in the
two pipeline runs and in `step_engine`, where the idle server stutters by an
action of its own or cancels go on; the other systems may
stop, as clients may, and their configurations say so.

Disagreements that runs exhibit (expected violations):

- `cancel_race`: an accepted cancel does not always win, as a comment says it
  does: one that falls into the last step is overtaken by COMPLETED.
- `restore_dirty`: a restore over a tree that was dirty at the apply is accepted
  when the directive names another checkpoint, or after a repeated apply replaced
  the checkpoint.
- `resume_checkpoint`: no saved checkpoint can be resumed. Before the end there
  is no result file to load; after it, the result is passed on as the plan.

Seven more properties are stated, and violated by what the code does, with a
configuration each that shows the trace:

- `MCCancelMutation.cfg`, `CancelledMeansUntouched`: a workflow can be cancelled
  long after DRAFT, its mutation made (`AFS-016E.md:146`).
- `MCStaleReply.cfg`, `RepliesTellTheState`: a repeated creation answers DRAFT
  whatever the workflow is.
- `MCTypedDelegation.cfg`, `TypedDelegationIsValidated`: no background run of a
  delegated task validates its result (`agents.ts:560`), so a caller that bound a
  schema never gets a verdict, although `AFS-016D.md:37` promises one.
- `MCQuarantineModes.cfg`, `UndisturbedContainmentSucceeds`: `seal` and
  `deny-activation` always end in containment-failed, as `verify-destination`
  looks where nothing was put (`quarantine-executor.ts:92`); the executor's test
  passes because its plan has no destination.
- `MCStrandedRun.cfg`, `DelegatingMeansDelegated`: a request to delegate without a
  body leaves the run in DELEGATING with no task (`agents.ts:176`, then `:182`).
- `MCSharedDestination.cfg`, `DestinationsAreInactive`: an operation copies the
  artifact, still active, over the deactivated copy of another one whose name ends
  in the same path, and is then refused its own deactivation. An unverified
  copy-and-seal is recorded as `quarantined` over an active destination, against
  L-9J-1013 (`quarantine-executor.ts:74`).
- `MCLateSuccess.cfg`, `WorkIsDoneOnce`: a skill succeeds after its timer, and the
  retry or the fallback starts the work again (`timeout-executor.ts:26`).

## 4. Fairness

- `AsyncExecution`: weak fairness of every actor that has started. Handlers are
  sequential code; `planAnswers` and the supervisor's invocation are fair because
  the planner is local code and every skill is raced against a timer
  (`timeout-executor.ts`). Nobody is obliged to submit or to cancel.
- `ExecutionSupervisor`: weak fairness of a session's own progress, for the same
  reason, which `StepEngine` shows to be one.
- `StepEngine`: weak fairness of timers and of the engine's and supervisor's own
  code; a skill never has to answer.
- `ExecutionEventStream`: weak fairness of subscribing, delivering and reading on
  a connection; none of producers, of opening and of losing connections.
- `Delegation`: weak fairness of each task's background run, as the router ends
  in the step engine; no client has to do anything.
- `PlanExecutor`: weak fairness of the executor and of each reader that reads;
  `ReadersEnd` allows for a crash. That a provider answers is assumed:
  `maxExecutionTimeMs` is not enforced.
- `PackageQuarantine`: weak fairness per request, as every port answers, if only
  with a refusal.
- `ControlPlane`: none, no liveness is claimed: clients may stop at any point.

## 5. Proofs

Every invariant and every action property of the passing runs is a theorem, and so is
the safety part of every refinement. The assumptions are those on the constants, named
in the modules that declare them; three results about the pipeline need in
addition that the stores do not suspend, as stated below.

**`AsyncExecutionProofs`**, under `ActorAssumption`. For both settings of
`StoreSuspends`: `TypeOK`, `OutcomeAgreesWithRecord`, `TerminalRecordsAreFinal`,
`InvalidOutputIsWithheld` and `StreamTellsOneStory` (theorems `TypeCorrect`,
`OutcomeAgrees`, `TerminalRecordsFinal`, `InvalidOutputNeverServed`,
`StreamsTellOneStory`).

`OutcomeAgreesWithRecord` is not inductive: that a task's terminal event matches
its record depends on where the task stands. The invariant `Inductive` adds two
parts to the types. `TaskInv` says of every control point of the background task
what the record and the stream may be there: open while the task can still
commit, terminal with the committed state between the commit and its
announcement, terminal on both sides at the end; and that after an exception the
record is either open or final with no terminal event yet. `CancelInv` says that a
cancel request which stands before its update or its append aims at an execution
whose task exists. The proof goes by actor: a step of one execution frames the
others (`StepFrame`, `TaskInvFramed`), a cancel step keeps the task's part because a
frozen record refuses it (`CancelKeepsTaskInv`), and every task step moves from
one control point's clause to the next. `TerminalRecordsFinal` follows from the
invariant and from the guard of `updateOrThrow`.

The later theorems do not go back to the actions. `HandlerMove`, `TaskMove` and
`CancelMove` say once what a step may do to one execution (which control point it
leaves and reaches, what it writes, what it appends), and the lemmas `HandlerMoves`,
`TaskMoves` and `CancelMoves` that every action is one of these. Over the moves,
`Withheld` follows a verdict from the validation into the record, `Storied` gives
the story that a stream has told by each control point, and `EvidencePending` keeps
the evidence ahead of the completion that speaks of it. What `mainStory` of a longer
stream is (`StoryGrows`) needs that its recursive definition has a solution and only
one; the least length that has none, or two, takes the place of induction.

For `StoreSuspends = FALSE`, the stores this build has: `OneExecutionPerKey`,
`AcceptedCancelTakesEffect` and the refinement `ImplementsLifecycle` (`KeysAreUnique`,
`AcceptedCancelsTakeEffect`, `LifecycleImplemented`). All three are false over a
store that suspends, of which TLC finds an example when `MCAsyncExecution.cfg` sets
`StoreSuspends` to `TRUE`: they hold because the event loop is kept, and not because of
what the code checks. `OneAtATime` says what an event loop gives: an
actor that does not rest holds it. With everyone else at rest, the save of a
submission finds the index as its look-up saw it (`KeysServed`), and a cancel request
finds each task waiting for the planner, for a skill, or ended: `Pending` carries
what the request read to its signal, `Spared` the executions whose session was not
known to their end without the supervisor, `Marked` the cancellation from the record to
the supervisor and the stream. `LifeMove` is the public shadow of a move; each is
a step of `ExecutionLifecycle` or a stutter (`LifeMovesOn`).

**`ControlPlaneProofs`**, under `NoneAssumption` (undefined is no identifier,
enumerated value or record): `TypeOK`, `MutationsAreApproved`,
`AutomaticRecoveryHasACause`, `EvidenceTellsTheOutcome`, `FinalWorkflowsAreFrozen` and
`MutatesOnce` (theorems `ControlTypeCorrect`, `MutationsApproved`, `RecoveriesCaused`,
`OutcomesTold`, `FinalFrozen`, `MutatedOnce`). None of the invariants
is inductive, nor does `MutatesOnce` follow from them: an apply may only be
the first because an approved workflow has no outcome yet, a verdict may say
VERIFIED because APPLIED and VERIFYING imply a mutation that went through, and
a recovery never follows a passed verdict because that verdict left the workflow
VERIFIED. `Sound` collects these facts about one record, judged against the
approval store and the checkpoint repository; the stores only grow
(`StoresGrow`), so a sound record stays sound when another request extends them
(`SoundKept`), and each request has to show only that the record it writes
is sound (`OneEdited`). The action properties are read off the guards
(`RequestKeeps`): a request writes no final record, and one that writes a record
with an outcome leaves what is said of the mutation. For `EvidenceTellsTheOutcome`
every request is one of four: nothing, an edit without an event, which never ends
a workflow, an edit with the event of the new state, or a creation (`RequestEdits`).
`LogsTell` says of the log of a workflow which index names its final state,
where the property counts, and that the idempotency index leads only to workflows
that exist, without which a repeated creation could log one that does not.

**`ExecutionEventStreamProofs`** proves `TypeOK`, `ExactlyOnceInOrder`,
`EndedStreamsAreComplete` and the whole refinement `Spec => ImplementsFeed`. What a
connection has not delivered yet is the `Remainder` of the stream after its
cursor: the queue of a live subscription is that remainder, the wire continues
what the client has received, and a client has at most one live connection per
execution (`OneLive`), so that the connection's position and the client's cannot
drift apart. From this invariant every step is shown to be one of `EventFeed`'s,
or none.

**`ExecutionSupervisorProofs`**, under `MaxAttemptsAssumption`, `StepIdAssumption` and
`PlanAssumption` (step ids are numbers, plans finite): `TypeOK`, `CancelStopsNewSteps`,
`DependenciesCompleteFirst`, `VerdictMatchesSteps` and `OrderedIffOrderable`. The
first section is about Kahn's algorithm alone. `Kahn` is its invariant: what is placed and
what is queued are just the steps whose dependencies are placed, each once, and the
in-degrees count the dependencies that are not. A turn keeps it (`Turns` carries it
along the recursive function); when the queue is empty, what was not placed is a set
of steps each waiting for another one of it, so that the plan has no order
(`Orderable`). Induction over the turns is the least number principle from
`WellFoundedInduction` (`LeastNumber`). For the loop,
`Started` says that the step of a session that invokes has been started, and
`Explains` that the steps before the loop's index are completed, those after
it untouched, and the one at it in a state that the session's own state explains.

**`StepEngineProofs`**, under `EngineAssumption` (the supervisor's three). First,
as a theorem, `Spec => Supervisor!Spec`: the safety part of
`ImplementsSupervisor`. Its invariant gives every answer of the engine a form the
supervisor can read (`AnswersAreInvocations`) and says that an engine which has
answered, or awaits a skill, has a session that invokes. With that refinement the
supervisor's theorems are taken over as they are, by an instance of
`ExecutionSupervisorProofs` (`SupervisorKeepsItsWord`), and its invariant `Explains` is
used in the rest: `Heard` says that a success that was heard is the answer on its way
to the supervisor or has completed the step, and that a final refusal has failed it or is
about to, which neither level retries (`SuccessIsTheEnd`, `RefusalsAreFinal`). What
comes after its timer is not heard, and of that the two claim nothing. The
refusal's part needs that no fallback was started; once one was, a later answer may
be retryable, and the code does start the primary again. `Spent` counts: an attempt
of the supervisor that is over has cost `MaxAttempts` starts of a skill at most, the
present one its `share`, which gives the bound `MaxAttempts * MaxAttempts` of
`RetriesMultiply`. `Left` sets, for each step, the attempts that run on after their
timer against the starts: of those that were started, the one that is awaited does
not run on yet. It bounds what a step can leave running (`TimeoutsLeaveABound`) and
completes the types (`EngineTypeCorrect`).

**`DelegationProofs`** proves `TypeOK`, `NoStrandedDelegator`, `EvidenceTellsTheTask`,
`ResumeWaitsForSiblings` and `AnswersAreFinal`, for any number of runs and
tasks and with ids reused. `Inductive` joins the types,
`RevokedAreOver` (a revoked certificate belongs to a task that is answered or
over) and `Evidenced`, which ties each task's state to the event kinds of its
delegation: an event log that lags behind a task would resume its run too early or
never, so no property of resumption can do without it. `NoStrandedDelegator` is an
action property: a step that closes the last open task of a delegating run takes the
run out of DELEGATING. As an invariant (`DelegatingMeansDelegated`) it is false, by the
request without a body.

**`PackageQuarantineProofs`** proves `TypeOK`, `QuarantinedIsContained`,
`FailuresTellTheMove` and `LocksHaveOneHolder` for any requests, operations and
demands, under the assumptions that the places differ and `None` is no mode,
outcome, artifact, job or record. `QuarantinedIsContained` is the hard one, because other
operations work on the same source while one is contained. `Safe(mode, o)` is what
a containment promises; no storage call of any request breaks it (`SafeKept`).
`Partial` is what holds of it after each step of the plan; only a request with
the same operation could disturb it (`PartialKept`), and that one would need the
same lock, which `LockInv` gives one holder. Operations that share a destination hold different
locks and do disturb each other there: what holds for all of them is that something
sealed lies there, and that it cannot be activated once the artifact was moved, as then
nobody can copy an active one any more. For a copy this takes a destination of
one's own (`hasOwnDestination`), or a verification after the source was deactivated.
Per mode, a lemma walks the plan.

**`PlanExecutorProofs`** proves all three invariants and `TypeOK`, for any number of
steps, retries and readers: `ReadersSeeTheJournal` from the invariant that what
a reader received followed by its queue is the story so far, with the end mark
once the bus is closed; `CheckpointTellsTheWork` and `ResultTellsTheJournal` from
`Work`, which says that the journal names exactly the steps completed, failed
and under way, and that these are the steps up to the current one, in turn. A
crash freezes all of it; `FileAssumption` keeps a file that is absent or torn
from being taken for content.

Only model-checked: liveness and fairness, that is `EveryExecutionEnds`,
`EverySessionEnds`, `SubscribersLearnTheEnd`, `StartedTasksSettle`, `ReadersEnd`,
`EveryRequestIsAnswered` and the fairness half of `ImplementsSupervisor`: neither can be
stated to the prover without ENABLED.

## 6. Not modelled, and why

Payload contents, hashes, timestamps and wording; the event store's replay by
idempotency key and the engines' replay by directive or result identifier, which
no route uses; HTTP pipelining of two requests in one read; the attenuation rules
of certificates, which are granted or refused; the quarantine's event sink and
request validators; replay, diff and metrics of the plan executor, which only
read. Agent coordination and oversight are libraries no route drives: their
check-then-act over Promise interfaces (`AFS-015D.md:113`) can only be judged
with a caller. The other components marked `not_modelled` in `PROJECT.json` are
sequential pipelines over data, I/O clients, or later candidates. Measured in
lines they are most of the repository; what is modelled is where its protocols
are.

Noticed in the code while modelling, and given no run:

- *Async execution.* `appendEvidence` is documented as a no-op on terminal records
  and is not one (`StreamTellsOneStory` relies on that). A set of cancelled
  sessions only grows.
- *Step engine.* The levels of retries multiply: up to MaxAttempts² starts per
  skill and step. Skills that timed out run on, and what they achieve late is done
  again. Once a fallback answered, the
  supervisor may start a primary again whose failure was final. `maxAttempts = 0`
  makes the engine throw, and the trace names the primary skill as the one that
  served when the fallback did.
- *Delegation.* A request without a body strands its run in DELEGATING until it
  delegates again or is cancelled. A refused certificate rolls the run back from DELEGATING although
  an earlier delegation is under way. A delegation id that is used again counts
  as resolved once any event under it is terminal. Cancelling a SUBMITTED task
  revokes its certificate although the cancellation is refused. A failing skill
  leaves a COMPLETED record; an accepted cancel of the execution is overwritten by
  it; no execution events are published for it. Cancelling a run leaves its
  tasks running; no route completes a run.
- *Control plane.* The stage closure lists VERIFICATION_FAILED as terminal while
  the transition table leaves it; a COMPENSATING_CHANGE directive is documented to
  require a compensating artifact and nothing asks for it.
- *Plan executor.* Files are written in place; a store that throws is an
  unhandled rejection; EXECUTION_COMPLETED is emitted before the result is saved;
  `cancel()` does nothing.
- *Quarantine.* The lock's key is the operation, so operations on one artifact
  are not serialised, although test L-9J-1019 (`constitutional-laws.test.ts:235`)
  says so, and operations whose names differ in `/`, spaces or `..` only share a
  destination as well. Overlapping requests of one operation may overwrite a recorded
  `quarantined`. In isolate mode a refused release makes the answer
  containment-failed, unrecorded, with the artifact moved and the lock held. The
  `seal` mode leaves its source activatable. `quarantine-completed` is published
  before the verification, and the re-evaluation of trust ignores what
  `quarantine()` answers.

## 7. Plan

Done: protocol, log, scheduler, supervisor, step engine, pipeline, event stream,
delegation, control plane, plan executor, quarantine, and a module of proofs for
each.

1. Proofs: that the properties which the code violates hold where it keeps to them
   (a cancel before the last step, a directive that names the checkpoint of the apply).
2. The control plane over a repository that suspends, one action per await: two
   applies of one workflow that interleave between reading and saving its record.
3. Trust repository and re-evaluation above the quarantine.
4. Coordination and oversight, once a route drives them; distribution.
