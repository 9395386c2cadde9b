----------------------------- MODULE StepEngine -----------------------------
(***************************************************************************)
(* What an invocation of a step is below the supervisor: SkillInvoker      *)
(* hands the step to the kernel's ExecutionEngine, which checks the        *)
(* budget, races every attempt of the skill against a timer, retries, and  *)
(* falls back to another skill.  ExecutionSupervisor takes the answer of   *)
(* an invocation as given; here it is computed, under a supervisor that    *)
(* retries what the engine has already retried.                            *)
(***************************************************************************)
EXTENDS Naturals, FiniteSets, ExecutionProtocol

CONSTANTS
    Session, StepId, Plan, MaxAttempts, NoPlan,     \* as in ExecutionSupervisor
    RetryableStatuses   \* retryPolicy.retryableStatuses of every step

\* What ExecutionSupervisor assumes of them.
ASSUME EngineAssumption ==
    /\ MaxAttempts \in Nat \ {0}
    /\ StepId \subseteq Nat
    /\ \A plan \in Plan :
           /\ plan.steps \subseteq StepId /\ IsFiniteSet(plan.steps)
           /\ \A i \in plan.steps : IsFiniteSet(plan.dependsOn[i])

VARIABLES
    session, cancelled, \* the supervisor's
    engine,             \* the engine call of each session
    policy,             \* what request and plan lay down for the steps of a session
    abandoned,          \* how many attempts of each step timed out and run on
    invoked,            \* history: how often a step started each of its skills
    said,               \* history: "success" or "final" once a skill of a step was heard to say so
    late                \* history: the steps of which an abandoned attempt has succeeded

vars == <<session, cancelled, engine, policy, abandoned, invoked, said, late>>

history == <<invoked, said, late>>

Supervisor == INSTANCE ExecutionSupervisor

Skills == {"primary", "fallback"}

\* SKIPPED stands for every status that is no success, failure or timeout.
SkillOutcome ==
    [status : {"FAILURE", "SKIPPED"}, retryable : BOOLEAN]
        \cup {[status |-> "SUCCESS", retryable |-> FALSE]}

timedOut == [status |-> "TIMEOUT", retryable |-> TRUE]

budgetExceeded == [status |-> "BUDGET_EXCEEDED", retryable |-> FALSE]

\* What the invoker's catch clause makes of an exception.
skillNotFound == [status |-> "FAILURE", retryable |-> FALSE]

noOutcome == [status |-> "none", retryable |-> FALSE]

EngineOutcome == SkillOutcome \cup {timedOut, budgetExceeded, skillNotFound, noOutcome}

\* What the catalog may have under the id of the fallback; "plain" does not declare
\* structuredOutput.
CatalogEntries == {"unknown", "plain", "structured"}

\* The engine is idle, awaits a skill, or has an answer for the supervisor.
Idle == [pc |-> "idle", attempt |-> 0, outcome |-> noOutcome]

Policy == [affordable : BOOLEAN, known : BOOLEAN, namesFallback : BOOLEAN,
           schemaBound : BOOLEAN]

\* The retries of the engine and the ones of the supervisor multiply.
MaxInvocations == MaxAttempts * MaxAttempts

\* No skill is started more often for a step, attempts that run on included.
TypeOK ==
    /\ Supervisor!TypeOK
    /\ engine \in [Session -> [pc : {"idle", "primary", "fallback", "answered"},
                               attempt : 0 .. MaxAttempts, outcome : EngineOutcome]]
    /\ policy \in [Session -> Policy]
    /\ abandoned \in [Session -> [StepId -> Nat]]
    /\ invoked \in [Session -> [StepId -> [Skills -> 0 .. MaxInvocations]]]
    /\ said \in [Session -> [StepId -> {"nothing", "final", "success"}]]
    /\ late \in [Session -> SUBSET StepId]

Init ==
    /\ Supervisor!Init
    /\ engine = [s \in Session |-> Idle]
    /\ policy \in [Session -> Policy]
    /\ abandoned = [s \in Session |-> [i \in StepId |-> 0]]
    /\ invoked = [s \in Session |-> [i \in StepId |-> [k \in Skills |-> 0]]]
    /\ said = [s \in Session |-> [i \in StepId |-> "nothing"]]
    /\ late = [s \in Session |-> {}]

-----------------------------------------------------------------------------
(* The engine.                                                              *)

awaiting(s) == engine[s].pc \in Skills

\* Entering attempt n of a skill, which starts the skill and its timer.
start(s, skill, n) ==
    /\ engine' = [engine EXCEPT ![s] = [pc |-> skill, attempt |-> n, outcome |-> noOutcome]]
    /\ invoked' = [invoked EXCEPT ![s][Supervisor!currentStep(s)][skill] = @ + 1]

answer(s, outcome) ==
    /\ engine' = [engine EXCEPT ![s].pc = "answered", ![s].outcome = outcome]
    /\ UNCHANGED invoked

\* ExecutionEngine.execute() up to the first attempt.  The supervisor waits.
enter(s) ==
    /\ session[s].invoking /\ engine[s].pc = "idle"
    /\ \/ ~ policy[s].affordable /\ answer(s, budgetExceeded)
       \/ policy[s].affordable /\ ~ policy[s].known /\ answer(s, skillNotFound)
       \/ policy[s].affordable /\ policy[s].known /\ start(s, "primary", 1)
    /\ UNCHANGED <<session, cancelled, policy, abandoned, said, late>>

\* Mutant: one attempt too many.
retriesOnceMore(s, outcome) ==
    /\ outcome.status \in RetryableStatuses
    /\ outcome.retryable
    /\ engine[s].attempt <= MaxAttempts

\* Mutant: only the status decides.
retriesByStatus(s, outcome) ==
    /\ outcome.status \in RetryableStatuses
    /\ engine[s].attempt < MaxAttempts

\* RetryExecutor.execute(): both the status and the skill must allow it.
retries(s, outcome) ==
    /\ outcome.status \in RetryableStatuses
    /\ outcome.retryable
    /\ engine[s].attempt < MaxAttempts

\* Mutant: the fallback is tried whatever the primary skill answered.
fallsBackAnyway(s, outcome, found) ==
    /\ engine[s].pc = "primary"
    /\ policy[s].namesFallback
    /\ found # "unknown"
    /\ policy[s].schemaBound => found = "structured"

\* FallbackExecutor.execute(), on what the catalog has under the fallback's id.
fallsBack(s, outcome, found) ==
    /\ engine[s].pc = "primary"
    /\ outcome.status # "SUCCESS"
    /\ policy[s].namesFallback
    /\ found # "unknown"
    /\ policy[s].schemaBound => found = "structured"

\* The catalog is looked up only when a fallback is due, and packages are
\* registered at any time, again under an id that is taken too: it has any entry.
attemptEnds(s, outcome) ==
    \/ retries(s, outcome) /\ start(s, engine[s].pc, engine[s].attempt + 1)
    \/ /\ ~ retries(s, outcome)
       /\ \E found \in CatalogEntries :
              \/ fallsBack(s, outcome, found) /\ start(s, "fallback", 1)
              \/ ~ fallsBack(s, outcome, found) /\ answer(s, outcome)

\* The skill wins the race; an exception is a failure that may be retried.
skillAnswers(s) ==
    /\ awaiting(s)
    /\ \E outcome \in SkillOutcome :
           /\ attemptEnds(s, outcome)
           /\ said' = [said EXCEPT ![s][Supervisor!currentStep(s)] =
                  IF outcome.status = "SUCCESS" THEN "success"
                  ELSE IF engine[s].pc = "primary" /\ ~ outcome.retryable THEN "final"
                  ELSE @]
    /\ UNCHANGED <<session, cancelled, policy, abandoned, late>>

\* Mutant: an attempt waits for its skill.
timerIgnored(s) == FALSE /\ UNCHANGED vars

\* The timer wins; nothing stops the skill.
timerFires(s) ==
    /\ awaiting(s)
    /\ abandoned' = [abandoned EXCEPT ![s][Supervisor!currentStep(s)] = @ + 1]
    /\ attemptEnds(s, timedOut)
    /\ UNCHANGED <<session, cancelled, policy, said, late>>

\* The loser of the race settles, with a success or without, and nobody listens.
lateAnswer(s, i) ==
    /\ abandoned[s][i] > 0
    /\ abandoned' = [abandoned EXCEPT ![s][i] = @ - 1]
    /\ late' \in {late, [late EXCEPT ![s] = @ \cup {i}]}
    /\ UNCHANGED <<session, cancelled, engine, policy, invoked, said>>

\* The supervisor tells apart success, timeout and the rest.
toInvocation(outcome) ==
    [outcome EXCEPT !.status = IF @ \in {"SUCCESS", "TIMEOUT"} THEN @ ELSE "FAILURE"]

\* The supervisor goes on with the answer of its invocation.
respond(s) ==
    /\ engine[s].pc = "answered"
    /\ LET outcome == toInvocation(engine[s].outcome)
       IN  \/ Supervisor!stepSucceeds(s, outcome)
           \/ Supervisor!retryStep(s, outcome)
           \/ Supervisor!stepFails(s, outcome)
    /\ engine' = [engine EXCEPT ![s] = Idle]
    /\ UNCHANGED <<policy, abandoned, history>>

-----------------------------------------------------------------------------

supervisorGoesOn(s) ==
    /\ Supervisor!ownStep(s)
    /\ UNCHANGED <<engine, policy, abandoned, history>>

supervisorIsCalled(s) ==
    /\ \/ /\ session[s].state = "NONE"
          /\ \E plan \in Plan : Supervisor!begin(s, plan) \/ Supervisor!beginThrows(s, plan)
       \/ Supervisor!cancel(s)
    /\ UNCHANGED <<engine, policy, abandoned, history>>

engineStep(s) == enter(s) \/ skillAnswers(s) \/ timerFires(s) \/ respond(s)

Next ==
    \E s \in Session :
        \/ supervisorIsCalled(s) \/ supervisorGoesOn(s) \/ engineStep(s)
        \/ \E i \in StepId : lateAnswer(s, i)

Spec == Init /\ [][Next]_vars

\* Timers fire and the engine's and the supervisor's own code runs on; a skill
\* need not ever answer.
FairSpec ==
    /\ Spec
    /\ \A s \in Session : /\ WF_vars(enter(s) \/ timerFires(s) \/ respond(s))
                          /\ WF_vars(supervisorGoesOn(s))

-----------------------------------------------------------------------------
(* Properties.                                                              *)

\* With skills that hang, throw, answer late or fail, and a catalog that
\* changes, the engine is the invocation that the supervisor counts on: it
\* answers in the end, within the outcomes the supervisor knows.
ImplementsSupervisor == Supervisor!FairSpec

\* A success that is heard ends the step: once an attempt succeeded before its
\* timer, neither a retry, at either level, nor the fallback starts a skill of the
\* step again.  Work that has succeeded is done again only after a timer gave up
\* on it.
SuccessEndsTheStep ==
    [][\A s \in Session, i \in StepId :
           said'[s][i] = "success" => invoked'[s][i] = invoked[s][i]]_vars

\* What does not hold: work that has succeeded is not done again.  A skill whose
\* timer fired runs on beside its retry, and its success, which nobody hears,
\* keeps neither the next attempt nor the fallback from starting.
WorkIsDoneOnce ==
    [][\A s \in Session, i \in StepId :
           said'[s][i] = "success" \/ i \in late'[s] => invoked'[s][i] = invoked[s][i]]_vars

\* A failure that the primary skill declared final, before its timer, is not
\* retried at either level.  (Once a fallback serves, it is the fallback's answer
\* that counts, and the supervisor may start both again.)
FinalFailuresAreNotRetried ==
    [][\A s \in Session, i \in StepId :
           (said'[s][i] = "final" /\ invoked'[s][i]["fallback"] = 0) =>
               invoked'[s][i]["primary"] = invoked[s][i]["primary"]]_vars

\* Skills that hang pile up, as no timer stops one, but a step leaves no more of
\* them running than the two levels of retries may start of its two skills.
LateSkillsAreBounded ==
    \A s \in Session, i \in StepId : abandoned[s][i] <= 2 * MaxInvocations
=============================================================================
