------------------------- MODULE ExecutionSupervisor -------------------------
(***************************************************************************)
(* The supervisor that executes one plan per session: it schedules the     *)
(* steps, invokes their skills one after another, retries, and looks at    *)
(* the set of cancelled sessions at every step boundary.  A step of this   *)
(* specification runs from one suspension of execute() (the invocation of  *)
(* a skill) to the next loop head, with every session save in between.     *)
(***************************************************************************)
EXTENDS Naturals, Sequences, TaskScheduler, ExecutionProtocol

CONSTANTS
    Session,       \* session identifiers
    StepId,        \* identifiers a plan may use for its steps
    Plan,          \* the plans the planner may hand over
    MaxAttempts,   \* retryPolicy.maxAttempts of every step
    NoPlan         \* the plan of a session that was never created

ASSUME MaxAttemptsAssumption == MaxAttempts \in Nat \ {0}
ASSUME StepIdAssumption == StepId \subseteq Nat
ASSUME PlanAssumption ==
    \A plan \in Plan :
        /\ plan.steps \subseteq StepId /\ IsFiniteSet(plan.steps)
        /\ \A i \in plan.steps : IsFiniteSet(plan.dependsOn[i])

VARIABLES
    session,       \* the session store, with the loop variables of execute()
    cancelled      \* the sessions cancel() was called for

vars == <<session, cancelled>>

StepStates == {"CREATED", "RUNNING", "RETRYING", "COMPLETED", "FAILED", "TIMED_OUT"}

SessionStates == {"NONE", "READY", "RUNNING"} \cup FinalSessionStates

\* What an invocation may answer: FAILURE is retryable or not, as the skill
\* says; a timeout is always reported as retryable.
Outcome == {[status |-> "SUCCESS", retryable |-> FALSE],
            [status |-> "FAILURE", retryable |-> FALSE],
            [status |-> "FAILURE", retryable |-> TRUE],
            [status |-> "TIMEOUT", retryable |-> TRUE]}

NoSession ==
    [state |-> "NONE", plan |-> NoPlan, order |-> <<>>, position |-> 0, attempts |-> 0,
     invoking |-> FALSE, steps |-> [i \in StepId |-> "CREATED"]]

\* The orders schedule() may return.
Orders == {ordered(plan) : plan \in Plan} \cup {<<>>}

SessionType ==
    [state : SessionStates, plan : Plan \cup {NoPlan}, order : Orders, position : Nat,
     attempts : 0 .. MaxAttempts, invoking : BOOLEAN, steps : [StepId -> StepStates]]

TypeOK ==
    /\ session \in [Session -> SessionType]
    /\ cancelled \subseteq Session

Init ==
    /\ session = [s \in Session |-> NoSession]
    /\ cancelled = {}

-----------------------------------------------------------------------------

\* The session is at the head of the loop over the ordered steps.
atBoundary(s) == session[s].state = "RUNNING" /\ ~ session[s].invoking

stepsLeft(s) == session[s].position < Len(session[s].order)

\* Mutant: the loop goes through the plan as it is listed.
currentStepAsListed(s) == sorted(session[s].plan.steps)[session[s].position + 1]

currentStep(s) == session[s].order[session[s].position + 1]

\* The supervisor has a result for its caller.
finished(s) == session[s].state \in FinalSessionStates

\* execute(): save the session as CREATED and READY, schedule, run.
begin(s, plan) ==
    /\ session[s].state = "NONE"
    /\ schedulable(plan)
    /\ session' = [session EXCEPT ![s].state = "RUNNING", ![s].plan = plan,
                                  ![s].order = ordered(plan)]
    /\ UNCHANGED cancelled

\* schedule() throws out of execute(): the stored session stays READY.
beginThrows(s, plan) ==
    /\ session[s].state = "NONE"
    /\ ~ schedulable(plan)
    /\ session' = [session EXCEPT ![s].state = "READY", ![s].plan = plan]
    /\ UNCHANGED cancelled

\* The cancellation check at the loop head.
observeCancel(s) ==
    /\ atBoundary(s) /\ stepsLeft(s)
    /\ s \in cancelled
    /\ session' = [session EXCEPT ![s].state = "CANCELLED"]
    /\ UNCHANGED cancelled

\* Mutant: no cancellation check at the loop head.
startStepUnchecked(s) ==
    /\ atBoundary(s) /\ stepsLeft(s)
    /\ session' = [session EXCEPT ![s].steps[currentStep(s)] = "RUNNING",
                                  ![s].attempts = 1,
                                  ![s].invoking = TRUE]
    /\ UNCHANGED cancelled

startStep(s) ==
    /\ atBoundary(s) /\ stepsLeft(s)
    /\ s \notin cancelled
    /\ session' = [session EXCEPT ![s].steps[currentStep(s)] = "RUNNING",
                                  ![s].attempts = 1,
                                  ![s].invoking = TRUE]
    /\ UNCHANGED cancelled

\* Mutant: the retry limit is off by one.
mayRetryOnceMore(s, outcome) ==
    /\ outcome.status # "SUCCESS"
    /\ outcome.retryable
    /\ session[s].attempts <= MaxAttempts

mayRetry(s, outcome) ==
    /\ outcome.status # "SUCCESS"
    /\ outcome.retryable
    /\ session[s].attempts < MaxAttempts

stepSucceeds(s, outcome) ==
    /\ session[s].invoking
    /\ outcome.status = "SUCCESS"
    /\ session' = [session EXCEPT ![s].steps[currentStep(s)] = "COMPLETED",
                                  ![s].position = @ + 1,
                                  ![s].invoking = FALSE]
    /\ UNCHANGED cancelled

\* The retry loop does not look at the set of cancelled sessions.
retryStep(s, outcome) ==
    /\ session[s].invoking
    /\ mayRetry(s, outcome)
    /\ session' = [session EXCEPT ![s].steps[currentStep(s)] = "RETRYING",
                                  ![s].attempts = @ + 1]
    /\ UNCHANGED cancelled

\* Mutant: a step that timed out is saved as FAILED.
stepFailsAlike(s, outcome) ==
    /\ session[s].invoking
    /\ outcome.status # "SUCCESS"
    /\ ~ mayRetry(s, outcome)
    /\ session' = [session EXCEPT
           ![s].steps[currentStep(s)] = "FAILED",
           ![s].state = IF outcome.status = "TIMEOUT" THEN "TIMED_OUT" ELSE "FAILED",
           ![s].invoking = FALSE]
    /\ UNCHANGED cancelled

\* Mutant: the loop goes on after a failure.
stepFailsOpen(s, outcome) ==
    /\ session[s].invoking
    /\ outcome.status # "SUCCESS"
    /\ ~ mayRetry(s, outcome)
    /\ session' = [session EXCEPT ![s].steps[currentStep(s)] = "FAILED",
                                  ![s].invoking = FALSE]
    /\ UNCHANGED cancelled

stepFails(s, outcome) ==
    /\ session[s].invoking
    /\ outcome.status # "SUCCESS"
    /\ ~ mayRetry(s, outcome)
    /\ LET failure == IF outcome.status = "TIMEOUT" THEN "TIMED_OUT" ELSE "FAILED"
       IN  session' = [session EXCEPT ![s].steps[currentStep(s)] = failure,
                                      ![s].state = failure,
                                      ![s].invoking = FALSE]
    /\ UNCHANGED cancelled

complete(s) ==
    /\ atBoundary(s) /\ ~ stepsLeft(s)
    /\ session' = [session EXCEPT ![s].state = "COMPLETED"]
    /\ UNCHANGED cancelled

\* cancel() only remembers the session, whatever its state.
cancel(s) ==
    /\ cancelled' = cancelled \cup {s}
    /\ UNCHANGED session

\* The invocation of a skill answers; the rest is the supervisor's own code.
invocationAnswers(s) ==
    \E outcome \in Outcome :
        stepSucceeds(s, outcome) \/ retryStep(s, outcome) \/ stepFails(s, outcome)

ownStep(s) == observeCancel(s) \/ startStep(s) \/ complete(s)

progress(s) == ownStep(s) \/ invocationAnswers(s)

Next ==
    \E s \in Session :
        \/ /\ session[s].state = "NONE"
           /\ \E plan \in Plan : begin(s, plan) \/ beginThrows(s, plan)
        \/ progress(s)
        \/ cancel(s)

Spec == Init /\ [][Next]_vars

\* Every promise the supervisor awaits settles: the store is in memory and
\* TimeoutExecutor races every skill against a timer.
FairSpec == Spec /\ \A s \in Session : WF_vars(progress(s))

-----------------------------------------------------------------------------

\* What the loop over the ordered steps relies on: the plan whole, without
\* repetition, every step after what it waits for.
sound(order, plan) ==
    /\ order \in Seq(plan.steps)
    /\ \A i, j \in 1 .. Len(order) : order[i] = order[j] => i = j
    /\ \A id \in plan.steps : \E i \in 1 .. Len(order) : order[i] = id
    /\ \A i \in 1 .. Len(order) : \A d \in plan.dependsOn[order[i]] :
           \E j \in 1 .. i - 1 : order[j] = d

\* A step is started only after everything it depends on has completed, in
\* whatever order the plan lists its steps (scheduler and loop together).
DependenciesCompleteFirst ==
    \A s \in Session : \A i \in StepId :
        session[s].steps[i] # "CREATED" =>
            \A d \in session[s].plan.dependsOn[i] : session[s].steps[d] = "COMPLETED"

\* Whoever loads a finished session finds no step still running or retrying,
\* and the steps explain the verdict: COMPLETED means that every step of the
\* plan completed, CANCELLED that some step was never started and none failed,
\* TIMED_OUT and FAILED that exactly one step ended that way.
VerdictMatchesSteps ==
    \A s \in Session : finished(s) =>
        LET ended(state) == {i \in session[s].plan.steps : session[s].steps[i] = state}
        IN  /\ ended("RUNNING") \cup ended("RETRYING") = {}
            /\ session[s].state = "COMPLETED" <=> ended("COMPLETED") = session[s].plan.steps
            /\ session[s].state = "CANCELLED" =>
                   ended("CREATED") # {} /\ ended("FAILED") \cup ended("TIMED_OUT") = {}
            /\ session[s].state \in {"FAILED", "TIMED_OUT"} =>
                   Cardinality(ended(session[s].state)) = 1

\* A plan is refused exactly when its steps cannot be ordered at all: the
\* scheduler neither rejects a sound plan nor runs part of a cyclic one, and
\* what it hands to the loop is an order of the whole plan.
\* (An order exists when every set of steps has one that waits for no other.)
Orderable(plan) ==
    /\ \A s \in plan.steps : plan.dependsOn[s] \subseteq plan.steps
    /\ \A S \in (SUBSET plan.steps) \ {{}} : \E s \in S : plan.dependsOn[s] \cap S = {}

OrderedIffOrderable ==
    \A s \in Session : session[s].state # "NONE" =>
        /\ session[s].state = "READY" <=> ~ Orderable(session[s].plan)
        /\ session[s].state # "READY" => sound(session[s].order, session[s].plan)

\* Once cancel() was called no further step of the session starts, and only
\* the step that was being invoked, with its retries, may still end.
CancelStopsNewSteps ==
    [][\A s \in Session : s \in cancelled =>
           \A i \in StepId : session[s].steps[i] = "CREATED" =>
                                 session'[s].steps[i] = "CREATED"]_vars

\* A session that runs reaches a verdict, retries and cancellations included.
EverySessionEnds ==
    \A s \in Session : session[s].state = "RUNNING" ~> finished(s)
=============================================================================
