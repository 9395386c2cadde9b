-------------------------- MODULE StepEngineProofs --------------------------
(***************************************************************************)
(* Proofs about StepEngine, for any sessions, plans, attempts and          *)
(* retryable statuses: the engine is an invocation as the supervisor       *)
(* counts on it, success and refusal that are heard end the work on a      *)
(* step, and the retries of the two levels multiply but do no worse, in    *)
(* what they start and in what they leave running.                         *)
(***************************************************************************)
EXTENDS StepEngine, Sequences, TLAPS

-----------------------------------------------------------------------------
(* The invariant: what the engine hands over.                               *)

EngineRecord ==
    [pc : {"idle", "primary", "fallback", "answered"}, attempt : Nat,
     outcome : EngineOutcome]

\* An answer is one that the supervisor knows how to read.
Answerable(e) == e.pc = "answered" => e.outcome # noOutcome

EngineInv ==
    /\ engine \in [Session -> EngineRecord]
    /\ \A s \in Session : Answerable(engine[s])

LEMMA OutcomesDiffer ==
    /\ SkillOutcome \cup {timedOut, budgetExceeded, skillNotFound, noOutcome} = EngineOutcome
    /\ \A outcome \in SkillOutcome \cup {timedOut, budgetExceeded, skillNotFound} :
           outcome # noOutcome
BY DEF EngineOutcome, SkillOutcome, timedOut, budgetExceeded, skillNotFound, noOutcome

\* The supervisor can read every answer of the engine.
LEMMA AnswersAreInvocations ==
    ASSUME NEW outcome \in EngineOutcome, outcome # noOutcome
    PROVE  toInvocation(outcome) \in Supervisor!Outcome
<1>1. CASE outcome \in {timedOut, budgetExceeded, skillNotFound}
    <2>1. toInvocation(timedOut) = [status |-> "TIMEOUT", retryable |-> TRUE]
        BY DEF timedOut, toInvocation
    <2>2. toInvocation(budgetExceeded) = [status |-> "FAILURE", retryable |-> FALSE]
        <3>1. budgetExceeded.status \notin {"SUCCESS", "TIMEOUT"}
            BY DEF budgetExceeded
        <3>2. toInvocation(budgetExceeded) = [budgetExceeded EXCEPT !.status = "FAILURE"]
            BY <3>1 DEF toInvocation
        <3> QED
            BY <3>2 DEF budgetExceeded
    <2>3. toInvocation(skillNotFound) = [status |-> "FAILURE", retryable |-> FALSE]
        BY DEF skillNotFound, toInvocation
    <2> QED
        BY <1>1, <2>1, <2>2, <2>3 DEF Supervisor!Outcome
<1>2. CASE outcome = [status |-> "SUCCESS", retryable |-> FALSE]
    BY <1>2 DEF toInvocation, Supervisor!Outcome
<1>3. CASE outcome \in [status : {"FAILURE", "SKIPPED"}, retryable : BOOLEAN]
    <2>1. PICK retryable \in BOOLEAN, status \in {"FAILURE", "SKIPPED"} :
              outcome = [status |-> status, retryable |-> retryable]
        BY <1>3
    <2>2. toInvocation(outcome) = [status |-> "FAILURE", retryable |-> retryable]
        BY <2>1 DEF toInvocation
    <2> QED
        BY <2>2 DEF Supervisor!Outcome
<1> QED
    BY <1>1, <1>2, <1>3 DEF EngineOutcome, SkillOutcome

\* An attempt, or the end of one, leaves an engine that can answer.
LEMMA StartKeeps ==
    ASSUME EngineInv, NEW s \in Session, NEW skill \in Skills, NEW n \in Nat,
           start(s, skill, n)
    PROVE  EngineInv'
<1> DEFINE e == [pc |-> skill, attempt |-> n, outcome |-> noOutcome]
<1>1. engine' = [engine EXCEPT ![s] = e]
    BY DEF start
<1>2. e \in EngineRecord /\ Answerable(e)
    BY OutcomesDiffer DEF EngineRecord, Skills, EngineOutcome, Answerable
<1> HIDE DEF e
<1>3. /\ engine' \in [Session -> EngineRecord] /\ engine'[s] = e
      /\ \A t \in Session \ {s} : engine'[t] = engine[t]
    BY <1>1, <1>2 DEF EngineInv
<1> QED
    BY <1>2, <1>3 DEF EngineInv

LEMMA AnswerKeeps ==
    ASSUME EngineInv, NEW s \in Session, NEW outcome \in EngineOutcome, outcome # noOutcome,
           answer(s, outcome)
    PROVE  EngineInv'
<1> DEFINE e == [engine[s] EXCEPT !.pc = "answered", !.outcome = outcome]
<1>1. engine \in [Session -> EngineRecord] /\ engine[s] \in EngineRecord
    BY DEF EngineInv
<1>2. engine' = [engine EXCEPT ![s] = e]
    BY <1>1 DEF answer, EngineRecord
<1>3. e \in EngineRecord /\ Answerable(e)
    BY <1>1 DEF EngineRecord, EngineInv, Answerable
<1> HIDE DEF e
<1>4. /\ engine' \in [Session -> EngineRecord] /\ engine'[s] = e
      /\ \A t \in Session \ {s} : engine'[t] = engine[t]
    BY <1>1, <1>2, <1>3
<1> QED
    BY <1>3, <1>4 DEF EngineInv

LEMMA AttemptKeeps ==
    ASSUME EngineInv, NEW s \in Session, awaiting(s), NEW outcome \in EngineOutcome,
           outcome # noOutcome, attemptEnds(s, outcome)
    PROVE  EngineInv'
<1>1. engine[s] \in EngineRecord /\ engine[s].pc \in Skills
    BY DEF EngineInv, awaiting
<1>2. ASSUME start(s, engine[s].pc, engine[s].attempt + 1)
      PROVE  EngineInv'
    <2>1. engine[s].attempt + 1 \in Nat
        BY <1>1 DEF EngineRecord
    <2>2. PICK skill \in Skills, n \in Nat : skill = engine[s].pc /\ n = engine[s].attempt + 1
        BY <1>1, <2>1, Zenon
    <2>3. start(s, skill, n)
        BY <1>2, <2>2
    <2> QED
        BY <2>3, StartKeeps
<1>3. ASSUME start(s, "fallback", 1)
      PROVE  EngineInv'
    BY <1>3, StartKeeps DEF Skills
<1>4. ASSUME answer(s, outcome)
      PROVE  EngineInv'
    BY <1>4, AnswerKeeps
<1> QED
    BY <1>2, <1>3, <1>4 DEF attemptEnds

LEMMA InitEngine == Init => EngineInv
BY DEF Init, EngineInv, EngineRecord, Idle, EngineOutcome, Answerable

LEMMA NextEngine ==
    ASSUME EngineInv, [Next]_vars
    PROVE  EngineInv'
<1>1. CASE engine' = engine
    BY <1>1 DEF EngineInv
<1>2. ASSUME NEW s \in Session, enter(s)
      PROVE  EngineInv'
    <2>1. budgetExceeded \in EngineOutcome /\ skillNotFound \in EngineOutcome
        BY DEF EngineOutcome
    <2>2. budgetExceeded # noOutcome /\ skillNotFound # noOutcome
        BY OutcomesDiffer
    <2>3. ASSUME start(s, "primary", 1) PROVE EngineInv'
        BY <2>3, StartKeeps DEF Skills
    <2> QED
        BY <1>2, <2>1, <2>2, <2>3, AnswerKeeps DEF enter
<1>3. ASSUME NEW s \in Session, skillAnswers(s)
      PROVE  EngineInv'
    <2>1. PICK outcome \in SkillOutcome : attemptEnds(s, outcome)
        BY <1>3 DEF skillAnswers
    <2>2. outcome \in EngineOutcome /\ outcome # noOutcome
        BY OutcomesDiffer
    <2> QED
        BY <1>3, <2>1, <2>2, AttemptKeeps DEF skillAnswers
<1>4. ASSUME NEW s \in Session, timerFires(s)
      PROVE  EngineInv'
    <2>1. timedOut \in EngineOutcome /\ timedOut # noOutcome
        BY OutcomesDiffer
    <2> QED
        BY <1>4, <2>1, AttemptKeeps DEF timerFires
<1>5. ASSUME NEW s \in Session, respond(s)
      PROVE  EngineInv'
    <2>1. engine' = [engine EXCEPT ![s] = Idle]
        BY <1>5 DEF respond
    <2>2. Idle \in EngineRecord /\ Answerable(Idle)
        BY DEF Idle, EngineRecord, EngineOutcome, Answerable
    <2>3. /\ engine' \in [Session -> EngineRecord] /\ engine'[s] = Idle
          /\ \A t \in Session \ {s} : engine'[t] = engine[t]
        BY <2>1, <2>2 DEF EngineInv
    <2> QED
        BY <2>2, <2>3 DEF EngineInv
<1>6. ASSUME NEW s \in Session, supervisorIsCalled(s) \/ supervisorGoesOn(s)
      PROVE  EngineInv'
    BY <1>1, <1>6 DEF supervisorIsCalled, supervisorGoesOn
<1>7. ASSUME NEW s \in Session, NEW i \in StepId, lateAnswer(s, i)
      PROVE  EngineInv'
    BY <1>1, <1>7 DEF lateAnswer
<1>8. CASE UNCHANGED vars
    BY <1>1, <1>8 DEF vars
<1> QED
    BY <1>2, <1>3, <1>4, <1>5, <1>6, <1>7, <1>8 DEF Next, engineStep

LEMMA EngineInvHolds == Spec => []EngineInv
BY InitEngine, NextEngine, PTL DEF Spec

-----------------------------------------------------------------------------
(* The refinement of the supervisor's invocation.                           *)

\* Budget check, attempts, timers and fallback are, to the supervisor, nothing
\* but an invocation that answers within the outcomes it knows: every step of
\* the engine is a step of ExecutionSupervisor or leaves its state alone.
THEOREM EngineImplementsSupervisor == Spec => Supervisor!Spec
<1>1. Init => Supervisor!Init
    BY DEF Init
<1>2. ASSUME EngineInv, [Next]_vars
      PROVE  [Supervisor!Next]_(Supervisor!vars)
    <2>1. ASSUME NEW s \in Session, supervisorIsCalled(s) PROVE Supervisor!Next
        BY <2>1 DEF supervisorIsCalled, Supervisor!Next
    <2>2. ASSUME NEW s \in Session, supervisorGoesOn(s) PROVE Supervisor!Next
        BY <2>2 DEF supervisorGoesOn, Supervisor!Next, Supervisor!progress
    <2>3. ASSUME NEW s \in Session, respond(s) PROVE Supervisor!Next
        <3> DEFINE outcome == toInvocation(engine[s].outcome)
        <3>1. engine[s].outcome \in EngineOutcome /\ engine[s].outcome # noOutcome
            BY <1>2, <2>3 DEF respond, EngineInv, EngineRecord, Answerable
        <3>2. outcome \in Supervisor!Outcome
            BY <3>1, AnswersAreInvocations
        <3>3. \/ Supervisor!stepSucceeds(s, outcome) \/ Supervisor!retryStep(s, outcome)
              \/ Supervisor!stepFails(s, outcome)
            BY <2>3 DEF respond
        <3>4. PICK o \in Supervisor!Outcome : o = outcome
            BY <3>2
        <3> HIDE DEF outcome
        <3>5. Supervisor!invocationAnswers(s)
            BY <3>3, <3>4 DEF Supervisor!invocationAnswers, Supervisor!stepSucceeds,
                              Supervisor!retryStep, Supervisor!stepFails, Supervisor!mayRetry
        <3> QED
            BY <3>5 DEF Supervisor!Next, Supervisor!progress
    <2>4. ASSUME NEW s \in Session, enter(s) \/ skillAnswers(s) \/ timerFires(s)
          PROVE  UNCHANGED Supervisor!vars
        BY <2>4 DEF enter, skillAnswers, timerFires, Supervisor!vars
    <2>5. ASSUME NEW s \in Session, NEW i \in StepId, lateAnswer(s, i)
          PROVE  UNCHANGED Supervisor!vars
        BY <2>5 DEF lateAnswer, Supervisor!vars
    <2>6. CASE UNCHANGED vars
        BY <2>6 DEF vars, Supervisor!vars
    <2> QED
        BY <1>2, <2>1, <2>2, <2>3, <2>4, <2>5, <2>6 DEF Next, engineStep
<1> QED
    BY <1>1, <1>2, EngineInvHolds, PTL DEF Spec, Supervisor!Spec

-----------------------------------------------------------------------------
(* What is proved of the supervisor holds of it above this engine: its      *)
(* theorems, taken through the refinement.                                  *)

Supervised == INSTANCE ExecutionSupervisorProofs

\* The constants are the supervisor's, and so are the assumptions on them.
LEMMA SupervisorAssumptions ==
    /\ Supervised!MaxAttemptsAssumption
    /\ Supervised!StepIdAssumption
    /\ Supervised!PlanAssumption
BY EngineAssumption DEF Supervised!MaxAttemptsAssumption, Supervised!StepIdAssumption,
       Supervised!PlanAssumption, Supervised!IsFiniteSet, IsFiniteSet

\* The two instances of the scheduler and of the supervisor are one.
LEMMA SameScheduler ==
    ASSUME NEW plan
    PROVE  /\ Supervisor!ordered(plan) = Supervised!ordered(plan)
           /\ Supervisor!schedulable(plan) <=> Supervised!schedulable(plan)
<1> USE DEF Supervisor!hasUnknownDependency, Supervised!hasUnknownDependency,
            Supervisor!initialSort, Supervised!initialSort,
            Supervisor!takeNext, Supervised!takeNext, Supervisor!sorted, Supervised!sorted,
            Supervisor!Cardinality, Supervised!Cardinality,
            Supervisor!ordered, Supervised!ordered
<1>1. Supervisor!ordered(plan) = Supervised!ordered(plan)
    BY Zenon
<1>2. Supervisor!schedulable(plan) <=> Supervised!schedulable(plan)
    BY Zenon DEF Supervisor!schedulable, Supervised!schedulable
<1> QED
    BY <1>1, <1>2

LEMMA SameSupervisor ==
    /\ Supervisor!Init => Supervised!Init
    /\ [Supervisor!Next]_(Supervisor!vars) => [Supervised!Next]_(Supervised!vars)
<1>1. Supervisor!Init => Supervised!Init
    BY DEF Supervisor!Init, Supervised!Init, Supervisor!NoSession, Supervised!NoSession
<1>2. ASSUME NEW s \in Session, NEW plan \in Plan
      PROVE  /\ Supervisor!begin(s, plan) => Supervised!begin(s, plan)
             /\ Supervisor!beginThrows(s, plan) => Supervised!beginThrows(s, plan)
    BY SameScheduler DEF Supervisor!begin, Supervised!begin, Supervisor!beginThrows,
                         Supervised!beginThrows
<1>3. ASSUME NEW s \in Session
      PROVE  /\ Supervisor!ownStep(s) => Supervised!ownStep(s)
             /\ Supervisor!cancel(s) => Supervised!cancel(s)
    BY DEF Supervisor!ownStep, Supervised!ownStep, Supervisor!observeCancel,
           Supervised!observeCancel, Supervisor!startStep, Supervised!startStep,
           Supervisor!complete, Supervised!complete, Supervisor!atBoundary,
           Supervised!atBoundary, Supervisor!stepsLeft, Supervised!stepsLeft,
           Supervisor!currentStep, Supervised!currentStep, Supervisor!cancel,
           Supervised!cancel
<1>4. ASSUME NEW s \in Session
      PROVE  Supervisor!invocationAnswers(s) => Supervised!invocationAnswers(s)
    BY DEF Supervisor!invocationAnswers, Supervised!invocationAnswers, Supervisor!Outcome,
           Supervised!Outcome, Supervisor!stepSucceeds, Supervised!stepSucceeds,
           Supervisor!retryStep, Supervised!retryStep, Supervisor!stepFails,
           Supervised!stepFails, Supervisor!mayRetry, Supervised!mayRetry,
           Supervisor!currentStep, Supervised!currentStep
<1>5. Supervisor!Next => Supervised!Next
    BY <1>2, <1>3, <1>4 DEF Supervisor!Next, Supervised!Next, Supervisor!progress,
                            Supervised!progress
<1>6. UNCHANGED Supervisor!vars => UNCHANGED Supervised!vars
    BY DEF Supervisor!vars, Supervised!vars
<1> QED
    BY <1>1, <1>5, <1>6

LEMMA SupervisedSpec == Spec => Supervised!Spec
<1>1. Supervisor!Init => Supervised!Init
    BY SameSupervisor
<1>2. [Supervisor!Next]_(Supervisor!vars) => [Supervised!Next]_(Supervised!vars)
    BY SameSupervisor
<1>3. Supervisor!Spec => Supervised!Spec
    BY <1>1, <1>2, PTL DEF Supervisor!Spec, Supervised!Spec
<1> QED
    BY <1>3, EngineImplementsSupervisor, PTL

\* The supervisor's inductive invariant.
LEMMA SupervisedHolds == Spec => []Supervised!Explains
<1>1. Supervised!Spec => []Supervised!Explains
    BY SupervisorAssumptions, Supervised!ExplainsHolds
<1> QED
    BY <1>1, SupervisedSpec, PTL

\* Whatever engine, timers, fallback and catalog do, the supervisor above them
\* starts no step before what it depends on, leaves a verdict that the steps
\* explain, and starts nothing after a cancellation.
THEOREM SupervisorKeepsItsWord ==
    Spec => /\ []Supervised!DependenciesCompleteFirst
            /\ []Supervised!VerdictMatchesSteps
            /\ Supervised!CancelStopsNewSteps
<1>1. Supervised!Spec => []Supervised!DependenciesCompleteFirst
    BY SupervisorAssumptions, Supervised!DependenciesFirst
<1>2. Supervised!Spec => []Supervised!VerdictMatchesSteps
    BY SupervisorAssumptions, Supervised!VerdictsExplained
<1>3. Supervised!Spec => Supervised!CancelStopsNewSteps
    BY SupervisorAssumptions, Supervised!CancelledStartsNothing
<1> QED
    BY <1>1, <1>2, <1>3, SupervisedSpec, PTL

-----------------------------------------------------------------------------
(* What the skills of a step have said, and what became of the step.        *)

SaidType == {"nothing", "final", "success"}

HistoryOK ==
    /\ invoked \in [Session -> [StepId -> [Skills -> Nat]]]
    /\ said \in [Session -> [StepId -> SaidType]]

\* The engine has an answer for the step that the session k stands at.
AnsweredFor(k, e, i) ==
    k.invoking /\ i = k.order[k.position + 1] /\ e.pc = "answered"

\* A success that was heard is on its way to the supervisor or has completed the
\* step; so does a refusal that no fallback made up for fail it.
Heard(k, e, told, counts) ==
    /\ e.pc # "idle" => k.invoking
    /\ \A i \in StepId :
           /\ told[i] = "success" =>
                  \/ k.steps[i] = "COMPLETED"
                  \/ AnsweredFor(k, e, i) /\ e.outcome.status = "SUCCESS"
           /\ told[i] = "final" /\ counts[i]["fallback"] = 0 =>
                  \/ k.steps[i] \in {"FAILED", "TIMED_OUT"}
                  \/ /\ AnsweredFor(k, e, i)
                     /\ e.outcome.status # "SUCCESS" /\ ~ e.outcome.retryable

HeardInv ==
    /\ HistoryOK
    /\ \A s \in Session : Heard(session[s], engine[s], said[s], invoked[s])

\* The step that a session stands at: being invoked, or not started yet.
LEMMA HeadOfLoop ==
    ASSUME Supervised!Explains, NEW s \in Session, NEW k, k = session[s],
           NEW head, head = k.order[k.position + 1]
    PROVE  /\ k \in Supervised!SessionType
           /\ k.state = "NONE" => ~ k.invoking
           /\ k.invoking => head \in StepId /\ k.steps[head] \in {"RUNNING", "RETRYING"}
           /\ k.state = "RUNNING" /\ ~ k.invoking /\ k.position < Len(k.order) =>
                  head \in StepId /\ k.steps[head] = "CREATED"
<1>1. k \in Supervised!SessionType /\ Supervised!Explained(k)
    BY DEF Supervised!Explains, Supervised!TypeOK
<1>2. CASE k.state \in {"NONE", "READY"}
    BY <1>1, <1>2 DEF Supervised!Explained
<1>3. CASE k.state \notin {"NONE", "READY"}
    <2>1. Supervised!Scheduled(k)
        BY <1>1, <1>3 DEF Supervised!Explained
    <2>2. Supervised!Topological(k.plan, k.order)
        BY <2>1, SupervisorAssumptions, Supervised!OrderIsTopological DEF Supervised!Scheduled
    <2>3. k.position \in Nat /\ Len(k.order) \in Nat
        BY <1>1, <2>2 DEF Supervised!SessionType, Supervised!Topological
    <2>4. ASSUME k.position < Len(k.order)
          PROVE  head \in StepId /\ k.steps[head] \in Supervised!StepAtHead(k)
        <3>1. k.position + 1 \in 1 .. Len(k.order)
            BY <2>3, <2>4
        <3> QED
            BY <2>1, <2>2, <3>1 DEF Supervised!Scheduled, Supervised!Topological
    <2>5. k.invoking => k.state = "RUNNING" /\ k.position < Len(k.order)
        BY <2>1 DEF Supervised!Scheduled, Supervised!more
    <2> QED
        BY <1>1, <1>3, <2>4, <2>5 DEF Supervised!StepAtHead
<1> QED
    BY <1>2, <1>3

\* A step of one session.
LEMMA OneSessionHears ==
    ASSUME HeardInv, HistoryOK', NEW s \in Session,
           \A t \in Session \ {s} :
               /\ session'[t] = session[t] /\ engine'[t] = engine[t]
               /\ said'[t] = said[t] /\ invoked'[t] = invoked[t],
           Heard(session'[s], engine'[s], said'[s], invoked'[s])
    PROVE  HeardInv'
<1>1. ASSUME NEW t \in Session PROVE Heard(session'[t], engine'[t], said'[t], invoked'[t])
    <2>1. CASE t = s
        BY <2>1
    <2>2. CASE t # s
        BY <2>2 DEF HeardInv
    <2> QED
        BY <2>1, <2>2
<1> QED
    BY <1>1 DEF HeardInv

\* No skill is started for a step that succeeded, nor, while the fallback has
\* not served, the primary one again for a step that it refused for good.
Quiet(told, before, after) ==
    \A i \in StepId :
        /\ told[i] = "success" => after[i] = before[i]
        /\ told[i] = "final" /\ after[i]["fallback"] = 0 =>
               after[i]["primary"] = before[i]["primary"]

\* The step of session s that is being invoked, head, while no answer waits.
InAttempt(s, k, head) ==
    /\ k = session[s] /\ head = k.order[k.position + 1]
    /\ k.invoking /\ engine[s].pc # "answered"
    /\ Supervised!Explains /\ HeardInv /\ engine \in [Session -> EngineRecord]

\* What was said of a step says nothing of a step in an attempt yet.
LEMMA NothingYet ==
    ASSUME NEW s \in Session, NEW k, NEW head, InAttempt(s, k, head)
    PROVE  /\ head \in StepId
           /\ k.steps[head] \in {"RUNNING", "RETRYING"}
           /\ said[s][head] # "success"
           /\ said[s][head] = "final" => invoked[s][head]["fallback"] # 0
           /\ \A i \in StepId :
                  /\ said[s][i] = "success" => k.steps[i] = "COMPLETED"
                  /\ said[s][i] = "final" /\ invoked[s][i]["fallback"] = 0 =>
                         k.steps[i] \in {"FAILED", "TIMED_OUT"}
<1>1. head \in StepId /\ k.steps[head] \in {"RUNNING", "RETRYING"}
    BY HeadOfLoop DEF InAttempt
<1>2. Heard(k, engine[s], said[s], invoked[s])
    BY DEF InAttempt, HeardInv
<1> QED
    BY <1>1, <1>2 DEF InAttempt, Heard, AnsweredFor

LEMMA StartHears ==
    ASSUME NEW s \in Session, NEW k, NEW head, InAttempt(s, k, head),
           NEW skill \in Skills, NEW n \in Nat, start(s, skill, n),
           NEW word \in SaidType, said' = [said EXCEPT ![s][head] = word],
           word = said[s][head] \/ (word = "final" /\ skill = "fallback"),
           session' = session
    PROVE  HeardInv' /\ Quiet(said'[s], invoked[s], invoked'[s])
<1> DEFINE counts == invoked[s]
           told == said[s]
           e == [pc |-> skill, attempt |-> n, outcome |-> noOutcome]
           mine == [counts[head] EXCEPT ![skill] = counts[head][skill] + 1]
           after == [counts EXCEPT ![head] = mine]
           toldNow == [told EXCEPT ![head] = word]
<1>1. /\ head \in StepId /\ k.steps[head] \in {"RUNNING", "RETRYING"}
      /\ told[head] # "success" /\ (told[head] = "final" => counts[head]["fallback"] # 0)
      /\ \A i \in StepId :
             /\ told[i] = "success" => k.steps[i] = "COMPLETED"
             /\ told[i] = "final" /\ counts[i]["fallback"] = 0 =>
                    k.steps[i] \in {"FAILED", "TIMED_OUT"}
    BY NothingYet
<1>2. /\ counts \in [StepId -> [Skills -> Nat]] /\ told \in [StepId -> SaidType]
      /\ invoked \in [Session -> [StepId -> [Skills -> Nat]]]
      /\ said \in [Session -> [StepId -> SaidType]]
      /\ engine \in [Session -> EngineRecord]
    BY DEF InAttempt, HeardInv, HistoryOK
<1>3. invoked' = [invoked EXCEPT ![s] = after] /\ engine' = [engine EXCEPT ![s] = e]
    <2>1. head = Supervisor!currentStep(s)
        BY DEF Supervisor!currentStep, InAttempt
    <2> QED
        BY <2>1 DEF start
<1>4. /\ after \in [StepId -> [Skills -> Nat]]
      /\ \A i \in StepId \ {head} : after[i] = counts[i]
      /\ after[head]["fallback"] \in Nat /\ counts[head]["fallback"] \in Nat
      /\ skill = "fallback" => after[head]["fallback"] = counts[head]["fallback"] + 1
      /\ skill # "fallback" => after[head]["fallback"] = counts[head]["fallback"]
    <2>1. "fallback" \in Skills /\ counts[head] \in [Skills -> Nat]
        BY <1>1, <1>2 DEF Skills
    <2>2. mine \in [Skills -> Nat]
        BY <2>1
    <2>3. /\ skill = "fallback" => mine["fallback"] = counts[head]["fallback"] + 1
          /\ skill # "fallback" => mine["fallback"] = counts[head]["fallback"]
        BY <2>1
    <2> HIDE DEF mine
    <2> QED
        BY <1>1, <1>2, <2>1, <2>2, <2>3
<1>5. /\ toldNow \in [StepId -> SaidType] /\ toldNow[head] = word
      /\ \A i \in StepId \ {head} : toldNow[i] = told[i]
    BY <1>1, <1>2
<1>6. e.pc = skill /\ skill # "idle" /\ skill # "answered" /\ k.invoking
    BY DEF Skills, InAttempt
<1> HIDE DEF after, e, toldNow
<1>7. /\ invoked'[s] = after /\ engine'[s] = e /\ said'[s] = toldNow /\ HistoryOK'
      /\ \A t \in Session \ {s} :
             invoked'[t] = invoked[t] /\ engine'[t] = engine[t] /\ said'[t] = said[t]
    BY <1>2, <1>3, <1>4, <1>5 DEF HistoryOK, toldNow
<1>8. word # "success" /\ (word = "final" => after[head]["fallback"] # 0)
    BY <1>1, <1>4
<1>9. Heard(k, e, toldNow, after)
    BY <1>1, <1>4, <1>5, <1>6, <1>8 DEF Heard, AnsweredFor
<1>10. Quiet(toldNow, counts, after)
    BY <1>4, <1>5, <1>8 DEF Quiet
<1>11. session'[s] = k
    BY DEF InAttempt
<1>12. HeardInv'
    BY <1>7, <1>9, <1>11, OneSessionHears DEF InAttempt
<1> QED
    BY <1>7, <1>10, <1>12

LEMMA AnswerHears ==
    ASSUME NEW s \in Session, NEW k, NEW head, InAttempt(s, k, head),
           NEW outcome \in EngineOutcome, answer(s, outcome),
           NEW word \in SaidType, said' = [said EXCEPT ![s][head] = word],
           \/ word = said[s][head]
           \/ word = "success" /\ outcome.status = "SUCCESS"
           \/ word = "final" /\ outcome.status # "SUCCESS" /\ ~ outcome.retryable,
           session' = session
    PROVE  HeardInv' /\ Quiet(said'[s], invoked[s], invoked'[s])
<1> DEFINE counts == invoked[s]
           told == said[s]
           e == [engine[s] EXCEPT !.pc = "answered", !.outcome = outcome]
           toldNow == [told EXCEPT ![head] = word]
<1>1. /\ head \in StepId /\ k.steps[head] \in {"RUNNING", "RETRYING"}
      /\ told[head] # "success" /\ (told[head] = "final" => counts[head]["fallback"] # 0)
      /\ \A i \in StepId :
             /\ told[i] = "success" => k.steps[i] = "COMPLETED"
             /\ told[i] = "final" /\ counts[i]["fallback"] = 0 =>
                    k.steps[i] \in {"FAILED", "TIMED_OUT"}
    BY NothingYet
<1>2. /\ told \in [StepId -> SaidType]
      /\ said \in [Session -> [StepId -> SaidType]]
      /\ engine \in [Session -> EngineRecord] /\ engine[s] \in EngineRecord
      /\ invoked' = invoked /\ HistoryOK
    BY DEF InAttempt, HeardInv, HistoryOK, answer
<1>3. engine' = [engine EXCEPT ![s] = e]
    BY <1>2 DEF answer, EngineRecord
<1>4. /\ toldNow \in [StepId -> SaidType] /\ toldNow[head] = word
      /\ \A i \in StepId \ {head} : toldNow[i] = told[i]
    BY <1>1, <1>2
<1>5. e.pc = "answered" /\ e.outcome = outcome
    BY <1>2 DEF EngineRecord
<1>6. k.invoking /\ head = k.order[k.position + 1] /\ session'[s] = k
    BY DEF InAttempt
<1> HIDE DEF e, toldNow
<1>7. /\ engine'[s] = e /\ said'[s] = toldNow /\ invoked'[s] = counts /\ HistoryOK'
      /\ \A t \in Session \ {s} :
             invoked'[t] = invoked[t] /\ engine'[t] = engine[t] /\ said'[t] = said[t]
    BY <1>2, <1>3, <1>4 DEF HistoryOK, toldNow
<1>8. Heard(k, e, toldNow, counts)
    BY <1>1, <1>4, <1>5, <1>6 DEF Heard, AnsweredFor
<1>9. Quiet(toldNow, counts, counts)
    BY DEF Quiet
<1>10. HeardInv'
    BY <1>6, <1>7, <1>8, OneSessionHears DEF InAttempt
<1> QED
    BY <1>7, <1>9, <1>10

\* What is said of an attempt decides how the attempt ends.
LEMMA AttemptHears ==
    ASSUME NEW s \in Session, NEW k, NEW head, InAttempt(s, k, head), awaiting(s),
           NEW outcome \in EngineOutcome, attemptEnds(s, outcome),
           NEW word \in SaidType, said' = [said EXCEPT ![s][head] = word],
           \/ word = said[s][head] /\ outcome.status # "SUCCESS"
           \/ word = "success" /\ outcome.status = "SUCCESS" /\ ~ outcome.retryable
           \/ /\ word = "final" /\ outcome.status # "SUCCESS" /\ ~ outcome.retryable
              /\ engine[s].pc = "primary",
           session' = session
    PROVE  HeardInv' /\ Quiet(said'[s], invoked[s], invoked'[s])
<1>1. engine[s] \in EngineRecord /\ engine[s].pc \in Skills /\ engine[s].attempt + 1 \in Nat
    BY DEF awaiting, InAttempt, EngineRecord
<1>2. CASE retries(s, outcome) /\ start(s, engine[s].pc, engine[s].attempt + 1)
    <2>1. word = said[s][head]
        BY <1>2 DEF retries
    <2>2. PICK skill \in Skills, n \in Nat : skill = engine[s].pc /\ n = engine[s].attempt + 1
        BY <1>1 DEF EngineRecord
    <2>3. start(s, skill, n)
        BY <1>2, <2>2
    <2> QED
        BY <2>1, <2>3, StartHears
<1>3. CASE outcome.status # "SUCCESS" /\ start(s, "fallback", 1)
    <2>1. word = said[s][head] \/ word = "final"
        BY <1>3
    <2>2. "fallback" \in Skills /\ 1 \in Nat
        BY DEF Skills
    <2> QED
        BY <1>3, <2>1, <2>2, StartHears
<1>4. CASE answer(s, outcome)
    BY <1>4, AnswerHears
<1> QED
    BY <1>2, <1>3, <1>4 DEF attemptEnds, fallsBack

\* A step that invokes no skill and hears none.
LEMMA StillIsQuiet ==
    ASSUME UNCHANGED <<invoked, said>>, NEW t \in Session
    PROVE  Quiet(said'[t], invoked[t], invoked'[t])
BY DEF Quiet

Knowing == Supervised!Explains /\ EngineInv /\ HeardInv

Hears(s) ==
    /\ HeardInv'
    /\ \A t \in Session : Quiet(said'[t], invoked[t], invoked'[t])

\* What a skill is started for or an answer concerns is the session's own.
LEMMA OnlyQuietElsewhere ==
    ASSUME NEW s \in Session, HeardInv', Quiet(said'[s], invoked[s], invoked'[s]),
           \A t \in Session \ {s} : invoked'[t] = invoked[t]
    PROVE  Hears(s)
<1>1. \A t \in Session \ {s} : Quiet(said'[t], invoked[t], invoked'[t])
    BY DEF Quiet
<1> QED
    BY <1>1 DEF Hears

\* Only the one session's counts are written.
LEMMA OthersUninvoked ==
    ASSUME HeardInv, NEW s \in Session,
           \/ \E skill, n : start(s, skill, n)
           \/ \E outcome : answer(s, outcome)
    PROVE  \A t \in Session \ {s} : invoked'[t] = invoked[t]
<1>1. invoked \in [Session -> [StepId -> [Skills -> Nat]]]
    BY DEF HeardInv, HistoryOK
<1> QED
    BY <1>1 DEF start, answer

LEMMA EnterHears ==
    ASSUME Knowing, NEW s \in Session, enter(s)
    PROVE  Hears(s)
<1> DEFINE k == session[s]
           head == k.order[k.position + 1]
           word == said[s][head]
<1>1. InAttempt(s, k, head)
    BY DEF InAttempt, enter, Knowing, EngineInv
<1>2. head \in StepId
    BY <1>1, NothingYet
<1>3. word \in SaidType /\ said' = [said EXCEPT ![s][head] = word] /\ session' = session
    <2>1. said \in [Session -> [StepId -> SaidType]] /\ said' = said
        BY DEF enter, Knowing, HeardInv, HistoryOK
    <2> QED
        BY <1>2, <2>1 DEF enter
<1> HIDE DEF k, head, word
<1>4. ASSUME NEW outcome \in EngineOutcome, answer(s, outcome)
      PROVE  HeardInv' /\ Quiet(said'[s], invoked[s], invoked'[s])
    BY <1>1, <1>3, <1>4, AnswerHears DEF word
<1>5. ASSUME start(s, "primary", 1)
      PROVE  HeardInv' /\ Quiet(said'[s], invoked[s], invoked'[s])
    BY <1>1, <1>3, <1>5, StartHears DEF word, Skills
<1>6. \/ answer(s, budgetExceeded) \/ answer(s, skillNotFound)
      \/ start(s, "primary", 1)
    BY DEF enter
<1>7. budgetExceeded \in EngineOutcome /\ skillNotFound \in EngineOutcome
    BY DEF EngineOutcome
<1>8. HeardInv' /\ Quiet(said'[s], invoked[s], invoked'[s])
    BY <1>4, <1>5, <1>6, <1>7
<1>9. \A t \in Session \ {s} : invoked'[t] = invoked[t]
    BY <1>6, OthersUninvoked DEF Knowing
<1> QED
    BY <1>8, <1>9, OnlyQuietElsewhere

LEMMA EndsUninvoked ==
    ASSUME HeardInv, NEW s \in Session, NEW outcome, attemptEnds(s, outcome)
    PROVE  \A t \in Session \ {s} : invoked'[t] = invoked[t]
BY OthersUninvoked DEF attemptEnds

LEMMA SkillHears ==
    ASSUME Knowing, NEW s \in Session, skillAnswers(s)
    PROVE  Hears(s)
<1> DEFINE k == session[s]
           head == k.order[k.position + 1]
<1>1. InAttempt(s, k, head) /\ awaiting(s) /\ session' = session
    <2>1. engine[s].pc \in Skills /\ Heard(k, engine[s], said[s], invoked[s])
        BY DEF skillAnswers, awaiting, Knowing, HeardInv
    <2> QED
        BY <2>1 DEF InAttempt, skillAnswers, awaiting, Knowing, EngineInv, Heard, Skills
<1>2. head \in StepId /\ head = Supervisor!currentStep(s)
    BY <1>1, NothingYet DEF Supervisor!currentStep
<1> HIDE DEF k, head
<1>3. PICK outcome \in SkillOutcome :
          /\ attemptEnds(s, outcome)
          /\ said' = [said EXCEPT ![s][head] =
                  IF outcome.status = "SUCCESS" THEN "success"
                  ELSE IF engine[s].pc = "primary" /\ ~ outcome.retryable THEN "final"
                  ELSE said[s][head]]
    BY <1>2 DEF skillAnswers
<1>4. outcome \in EngineOutcome
    BY OutcomesDiffer
<1>5. outcome.status = "SUCCESS" => ~ outcome.retryable
    <2>1. outcome \in [status : {"FAILURE", "SKIPPED"}, retryable : BOOLEAN]
              => outcome.status # "SUCCESS"
        OBVIOUS
    <2>2. outcome = [status |-> "SUCCESS", retryable |-> FALSE] => ~ outcome.retryable
        OBVIOUS
    <2> QED
        BY <2>1, <2>2 DEF SkillOutcome
<1>6. said[s][head] \in SaidType
    BY <1>2 DEF Knowing, HeardInv, HistoryOK
<1>7. PICK word \in SaidType :
          /\ said' = [said EXCEPT ![s][head] = word]
          /\ \/ word = said[s][head] /\ outcome.status # "SUCCESS"
             \/ word = "success" /\ outcome.status = "SUCCESS" /\ ~ outcome.retryable
             \/ /\ word = "final" /\ outcome.status # "SUCCESS" /\ ~ outcome.retryable
                /\ engine[s].pc = "primary"
    BY <1>3, <1>5, <1>6 DEF SaidType
<1>8. HeardInv' /\ Quiet(said'[s], invoked[s], invoked'[s])
    <2>1. attemptEnds(s, outcome)
        BY <1>3
    <2> QED
        BY <1>1, <1>4, <1>7, <2>1, AttemptHears, Zenon
<1> QED
    BY <1>3, <1>8, EndsUninvoked, OnlyQuietElsewhere DEF Knowing

LEMMA TimerHears ==
    ASSUME Knowing, NEW s \in Session, timerFires(s)
    PROVE  Hears(s)
<1> DEFINE k == session[s]
           head == k.order[k.position + 1]
           word == said[s][head]
<1>1. InAttempt(s, k, head) /\ awaiting(s) /\ session' = session
    <2>1. engine[s].pc \in Skills /\ Heard(k, engine[s], said[s], invoked[s])
        BY DEF timerFires, awaiting, Knowing, HeardInv
    <2> QED
        BY <2>1 DEF InAttempt, timerFires, awaiting, Knowing, EngineInv, Heard, Skills
<1>2. head \in StepId
    BY <1>1, NothingYet
<1>3. word \in SaidType /\ said' = [said EXCEPT ![s][head] = word]
    <2>1. said \in [Session -> [StepId -> SaidType]] /\ said' = said
        BY DEF timerFires, Knowing, HeardInv, HistoryOK
    <2> QED
        BY <1>2, <2>1
<1>4. timedOut \in EngineOutcome /\ timedOut.status # "SUCCESS" /\ attemptEnds(s, timedOut)
    BY DEF EngineOutcome, timedOut, timerFires
<1>5. word = said[s][head]
    OBVIOUS
<1> HIDE DEF k, head, word
<1>6. PICK outcome \in EngineOutcome : outcome = timedOut
    BY <1>4
<1>7. HeardInv' /\ Quiet(said'[s], invoked[s], invoked'[s])
    BY <1>1, <1>3, <1>4, <1>5, <1>6, AttemptHears
<1> QED
    BY <1>4, <1>7, EndsUninvoked, OnlyQuietElsewhere DEF Knowing

\* The supervisor reads the answer.
LEMMA ResponseHears ==
    ASSUME Knowing, NEW s \in Session, respond(s)
    PROVE  Hears(s)
<1> DEFINE k == session[s]
           head == k.order[k.position + 1]
           outcome == engine[s].outcome
           read == toInvocation(outcome)
           told == said[s]
           counts == invoked[s]
<1>1. /\ engine[s].pc = "answered" /\ engine[s] \in EngineRecord
      /\ Heard(k, engine[s], told, counts) /\ HistoryOK
      /\ UNCHANGED <<invoked, said>>
      /\ engine' = [engine EXCEPT ![s] = Idle] /\ engine \in [Session -> EngineRecord]
      /\ \/ Supervisor!stepSucceeds(s, read)
         \/ Supervisor!retryStep(s, read)
         \/ Supervisor!stepFails(s, read)
    BY DEF respond, Knowing, EngineInv, HeardInv, history
<1>2. k.invoking
    BY <1>1 DEF Heard
<1>3. /\ k \in Supervised!SessionType /\ head \in StepId
      /\ k.steps[head] \in {"RUNNING", "RETRYING"}
      /\ session \in [Session -> Supervised!SessionType]
    <2>1. Supervised!Explains
        BY DEF Knowing
    <2> QED
        BY <1>2, <2>1, HeadOfLoop DEF Supervised!Explains, Supervised!TypeOK
<1>4. /\ read.status = "SUCCESS" <=> outcome.status = "SUCCESS"
      /\ read.retryable = outcome.retryable
    <2>1. outcome \in EngineOutcome
        BY <1>1 DEF EngineRecord
    <2>2. /\ DOMAIN outcome = {"status", "retryable"}
          /\ outcome = [status |-> outcome.status, retryable |-> outcome.retryable]
        BY <2>1 DEF EngineOutcome, SkillOutcome, timedOut, budgetExceeded, skillNotFound,
                    noOutcome
    <2> HIDE DEF outcome
    <2>3. read = [outcome EXCEPT !.status = IF outcome.status \in {"SUCCESS", "TIMEOUT"}
                                            THEN outcome.status ELSE "FAILURE"]
        BY DEF toInvocation
    <2> QED
        BY <2>2, <2>3
<1>5. head = Supervisor!currentStep(s)
    BY DEF Supervisor!currentStep
<1>6. /\ told[head] = "success" => outcome.status = "SUCCESS"
      /\ told[head] = "final" /\ counts[head]["fallback"] = 0 =>
             outcome.status # "SUCCESS" /\ ~ outcome.retryable
      /\ \A i \in StepId \ {head} :
             /\ told[i] = "success" => k.steps[i] = "COMPLETED"
             /\ told[i] = "final" /\ counts[i]["fallback"] = 0 =>
                    k.steps[i] \in {"FAILED", "TIMED_OUT"}
    BY <1>1, <1>3 DEF Heard, AnsweredFor
<1>7. /\ \A t \in Session \ {s} :
             /\ session'[t] = session[t] /\ engine'[t] = engine[t]
             /\ said'[t] = said[t] /\ invoked'[t] = invoked[t]
      /\ said'[s] = told /\ invoked'[s] = counts /\ engine'[s].pc = "idle" /\ HistoryOK'
    BY <1>1, <1>3 DEF Supervisor!stepSucceeds, Supervisor!retryStep, Supervisor!stepFails,
                      HistoryOK, Idle
<1>8. ASSUME NEW final, \A i \in StepId \ {head} : session'[s].steps[i] = k.steps[i],
             session'[s].steps[head] = final,
             told[head] = "success" => final = "COMPLETED",
             told[head] = "final" /\ counts[head]["fallback"] = 0 =>
                 final \in {"FAILED", "TIMED_OUT"}
      PROVE  Heard(session'[s], engine'[s], said'[s], invoked'[s])
    BY <1>6, <1>7, <1>8 DEF Heard
<1> HIDE DEF k, head, outcome, read, told, counts
<1>9. ASSUME Supervisor!stepSucceeds(s, read)
      PROVE  Heard(session'[s], engine'[s], said'[s], invoked'[s])
    <2>1. read.status = "SUCCESS"
        BY <1>9 DEF Supervisor!stepSucceeds
    <2>2. /\ \A i \in StepId \ {head} : session'[s].steps[i] = k.steps[i]
          /\ session'[s].steps[head] = "COMPLETED"
        BY <1>3, <1>5, <1>9 DEF Supervisor!stepSucceeds, Supervised!SessionType, k
    <2> QED
        BY <1>4, <1>6, <1>8, <2>1, <2>2
<1>10. ASSUME Supervisor!retryStep(s, read)
       PROVE  Heard(session'[s], engine'[s], said'[s], invoked'[s])
    <2>1. read.status # "SUCCESS" /\ read.retryable
        BY <1>10 DEF Supervisor!retryStep, Supervisor!mayRetry
    <2>2. /\ \A i \in StepId \ {head} : session'[s].steps[i] = k.steps[i]
          /\ session'[s].steps[head] = "RETRYING"
        BY <1>3, <1>5, <1>10 DEF Supervisor!retryStep, Supervised!SessionType, k
    <2> QED
        BY <1>4, <1>6, <1>8, <2>1, <2>2
<1>11. ASSUME Supervisor!stepFails(s, read)
       PROVE  Heard(session'[s], engine'[s], said'[s], invoked'[s])
    <2>1. read.status # "SUCCESS"
        BY <1>11 DEF Supervisor!stepFails
    <2>2. PICK final \in {"FAILED", "TIMED_OUT"} :
              session' = [session EXCEPT ![s].steps[Supervisor!currentStep(s)] = final,
                                         ![s].state = final, ![s].invoking = FALSE]
        BY <1>11 DEF Supervisor!stepFails
    <2>3. /\ \A i \in StepId \ {head} : session'[s].steps[i] = k.steps[i]
          /\ session'[s].steps[head] = final
        BY <1>3, <1>5, <2>2 DEF Supervised!SessionType, k
    <2> QED
        BY <1>4, <1>6, <1>8, <2>1, <2>3
<1>12. Heard(session'[s], engine'[s], said'[s], invoked'[s])
    BY <1>1, <1>9, <1>10, <1>11
<1>13. HeardInv'
    BY <1>7, <1>12, OneSessionHears DEF Knowing
<1> QED
    BY <1>1, <1>13, StillIsQuiet DEF Hears

\* The supervisor's own steps start no step that anything was said of.
LEMMA SupervisorHears ==
    ASSUME Knowing, NEW s \in Session, supervisorIsCalled(s) \/ supervisorGoesOn(s)
    PROVE  Hears(s)
<1> DEFINE k == session[s]
           head == k.order[k.position + 1]
<1>1. /\ HistoryOK /\ Heard(k, engine[s], said[s], invoked[s])
      /\ engine' = engine /\ invoked' = invoked /\ said' = said
    BY DEF Knowing, HeardInv, supervisorIsCalled, supervisorGoesOn, history
<1>2. /\ k \in Supervised!SessionType
      /\ k.state = "NONE" => ~ k.invoking
      /\ k.state = "RUNNING" /\ ~ k.invoking /\ k.position < Len(k.order) =>
             head \in StepId /\ k.steps[head] = "CREATED"
      /\ session \in [Session -> Supervised!SessionType]
    <2>1. Supervised!Explains
        BY DEF Knowing
    <2> QED
        BY <2>1, HeadOfLoop DEF Supervised!Explains, Supervised!TypeOK
<1>3. ASSUME NEW l, session' = [session EXCEPT ![s] = l], ~ k.invoking,
             \A i \in StepId : l.steps[i] = k.steps[i] \/ k.steps[i] = "CREATED",
             l.invoking \in BOOLEAN
      PROVE  HeardInv'
    <2>1. session'[s] = l /\ \A t \in Session \ {s} : session'[t] = session[t]
        BY <1>2, <1>3
    <2>2. engine[s].pc = "idle"
        BY <1>1, <1>3 DEF Heard
    <2>3. Heard(l, engine[s], said[s], invoked[s])
        BY <1>1, <1>3, <2>2 DEF Heard, AnsweredFor
    <2>4. HistoryOK'
        BY <1>1 DEF HistoryOK
    <2> QED
        BY <1>1, <2>1, <2>3, <2>4, OneSessionHears DEF Knowing
<1>4. ASSUME session' = session PROVE HeardInv'
    BY <1>1, <1>4 DEF Knowing, HeardInv, HistoryOK
<1>5. ASSUME NEW plan \in Plan, Supervisor!begin(s, plan) PROVE HeardInv'
    <2> DEFINE l == [k EXCEPT !.state = "RUNNING", !.plan = plan,
                              !.order = Supervisor!ordered(plan)]
    <2>1. session' = [session EXCEPT ![s] = l] /\ ~ k.invoking
        BY <1>2, <1>5 DEF Supervisor!begin, Supervised!SessionType
    <2>2. l.steps = k.steps /\ l.invoking \in BOOLEAN
        BY <1>2 DEF Supervised!SessionType
    <2> HIDE DEF l, k
    <2> QED
        BY <1>3, <2>1, <2>2
<1>6. ASSUME NEW plan \in Plan, Supervisor!beginThrows(s, plan) PROVE HeardInv'
    <2> DEFINE l == [k EXCEPT !.state = "READY", !.plan = plan]
    <2>1. session' = [session EXCEPT ![s] = l] /\ ~ k.invoking
        BY <1>2, <1>6 DEF Supervisor!beginThrows, Supervised!SessionType
    <2>2. l.steps = k.steps /\ l.invoking \in BOOLEAN
        BY <1>2 DEF Supervised!SessionType
    <2> HIDE DEF l, k
    <2> QED
        BY <1>3, <2>1, <2>2
<1>7. ASSUME Supervisor!cancel(s) PROVE HeardInv'
    BY <1>4, <1>7 DEF Supervisor!cancel
<1>8. ASSUME Supervisor!observeCancel(s) \/ Supervisor!complete(s) PROVE HeardInv'
    <2>1. PICK state \in {"CANCELLED", "COMPLETED"} : session' = [session EXCEPT ![s].state = state]
        BY <1>8 DEF Supervisor!observeCancel, Supervisor!complete
    <2> DEFINE l == [k EXCEPT !.state = state]
    <2>2. session' = [session EXCEPT ![s] = l] /\ ~ k.invoking
        BY <1>2, <1>8, <2>1 DEF Supervisor!observeCancel, Supervisor!complete, Supervisor!atBoundary
    <2>3. l.steps = k.steps /\ l.invoking \in BOOLEAN
        BY <1>2 DEF Supervised!SessionType
    <2> HIDE DEF l, k
    <2> QED
        BY <1>3, <2>2, <2>3
<1>9. ASSUME Supervisor!startStep(s) PROVE HeardInv'
    <2>1. /\ k.state = "RUNNING" /\ ~ k.invoking /\ k.position < Len(k.order)
          /\ session' = [session EXCEPT ![s].steps[head] = "RUNNING", ![s].attempts = 1,
                                        ![s].invoking = TRUE]
        BY <1>9 DEF Supervisor!startStep, Supervisor!atBoundary, Supervisor!stepsLeft,
                    Supervisor!currentStep
    <2> DEFINE steps == [k.steps EXCEPT ![head] = "RUNNING"]
               l == [k EXCEPT !.steps = steps, !.attempts = 1, !.invoking = TRUE]
    <2>2. session' = [session EXCEPT ![s] = l]
        BY <1>2, <2>1 DEF Supervised!SessionType
    <2>3. l.steps = steps /\ l.invoking \in BOOLEAN
        BY <1>2 DEF Supervised!SessionType
    <2>4. \A i \in StepId : steps[i] = k.steps[i] \/ k.steps[i] = "CREATED"
        BY <1>2, <2>1 DEF Supervised!SessionType
    <2> HIDE DEF l, k, steps
    <2> QED
        BY <1>3, <2>1, <2>2, <2>3, <2>4
<1>10. HeardInv'
    BY <1>5, <1>6, <1>7, <1>8, <1>9 DEF supervisorIsCalled, supervisorGoesOn, Supervisor!ownStep
<1> QED
    BY <1>1, <1>10, StillIsQuiet DEF Hears

LEMMA StepHears ==
    ASSUME Knowing, [Next]_vars
    PROVE  HeardInv' /\ \A t \in Session : Quiet(said'[t], invoked[t], invoked'[t])
<1> DEFINE Goal == HeardInv' /\ \A t \in Session : Quiet(said'[t], invoked[t], invoked'[t])
<1>1. ASSUME session' = session, engine' = engine, invoked' = invoked, said' = said
      PROVE  Goal
    BY <1>1, StillIsQuiet DEF Knowing, HeardInv, HistoryOK
<1>2. ASSUME NEW s \in Session, Hears(s) PROVE Goal
    BY <1>2 DEF Hears
<1> HIDE DEF Goal
<1>3. ASSUME NEW s \in Session, supervisorIsCalled(s) \/ supervisorGoesOn(s) PROVE Goal
    BY <1>2, <1>3, SupervisorHears
<1>4. ASSUME NEW s \in Session, engineStep(s) PROVE Goal
    BY <1>2, <1>4, EnterHears, SkillHears, TimerHears, ResponseHears DEF engineStep
<1>5. ASSUME NEW s \in Session, NEW i \in StepId, lateAnswer(s, i) PROVE Goal
    BY <1>1, <1>5 DEF lateAnswer
<1>6. ASSUME UNCHANGED vars PROVE Goal
    BY <1>1, <1>6 DEF vars
<1>7. Goal
    BY <1>3, <1>4, <1>5, <1>6 DEF Next
<1> QED
    BY <1>7 DEF Goal

LEMMA InitHears == Init => HeardInv
<1> SUFFICES ASSUME Init PROVE HeardInv
    OBVIOUS
<1>1. HistoryOK
    BY DEF Init, HistoryOK, SaidType
<1>2. ASSUME NEW s \in Session PROVE Heard(session[s], engine[s], said[s], invoked[s])
    BY DEF Init, Idle, Heard
<1> QED
    BY <1>1, <1>2 DEF HeardInv

\* What the engine knows, what the supervisor does with it and what was said.
THEOREM AlwaysHeard == Spec => []Knowing
<1>1. Supervised!Explains /\ EngineInv /\ HeardInv /\ [Next]_vars => HeardInv'
    BY StepHears DEF Knowing
<1>2. Supervised!Explains /\ EngineInv /\ HeardInv => Knowing
    BY DEF Knowing
<1> QED
    BY <1>1, <1>2, InitHears, SupervisedHolds, EngineInvHolds, PTL DEF Spec

\* No skill is started for a step one of whose skills was heard to succeed; a
\* success that came after its timer is none that anyone heard.
THEOREM SuccessIsTheEnd == Spec => SuccessEndsTheStep
<1>1. Knowing /\ [Next]_vars =>
          [\A s \in Session, i \in StepId :
               said'[s][i] = "success" => invoked'[s][i] = invoked[s][i]]_vars
    BY StepHears DEF Quiet
<1> QED
    BY <1>1, AlwaysHeard, PTL DEF Spec, SuccessEndsTheStep

\* No primary skill is asked again that was heard to refuse for good.
THEOREM RefusalsAreFinal == Spec => FinalFailuresAreNotRetried
<1>1. Knowing /\ [Next]_vars =>
          [\A s \in Session, i \in StepId :
               (said'[s][i] = "final" /\ invoked'[s][i]["fallback"] = 0) =>
                   invoked'[s][i]["primary"] = invoked[s][i]["primary"]]_vars
    BY StepHears DEF Quiet
<1> QED
    BY <1>1, AlwaysHeard, PTL DEF Spec, FinalFailuresAreNotRetried

-----------------------------------------------------------------------------
(* How often a skill is started for a step.                                 *)

\* What the engine may have started of each skill in the supervisor's present
\* attempt.
share(e, skill) ==
    IF e.pc = skill THEN e.attempt
    ELSE IF e.pc = "idle" \/ (e.pc = "primary" /\ skill = "fallback") THEN 0
    ELSE MaxAttempts

\* Every attempt of the supervisor that is over has cost MaxAttempts at most.
Spent(k, e, counts) ==
    /\ k.invoking => k.attempts \in 1 .. MaxAttempts
    /\ e.pc \in Skills => e.attempt \in 1 .. MaxAttempts
    /\ \A i \in StepId, skill \in Skills :
           /\ k.steps[i] = "CREATED" => counts[i][skill] = 0
           /\ k.invoking /\ i = k.order[k.position + 1] =>
                  counts[i][skill] <= MaxAttempts * (k.attempts - 1) + share(e, skill)
           /\ counts[i][skill] <= MaxAttempts * MaxAttempts

SpentInv == \A s \in Session : Spent(session[s], engine[s], invoked[s])

LEMMA Products ==
    ASSUME NEW m \in Nat, NEW a \in 1 .. m
    PROVE  /\ m * (a - 1) \in Nat /\ m * a \in Nat /\ m * m \in Nat
           /\ m * (a - 1) + m = m * a
           /\ m * a <= m * m
<1>1. a \in Nat /\ a - 1 \in Nat /\ a <= m /\ m - a \in Nat
    OBVIOUS
<1>2. m * (m - a) \in Nat
    BY <1>1
<1>3. m * (m - a) = m * m - m * a
    BY <1>1
<1> QED
    BY <1>1, <1>2, <1>3

LEMMA Shares ==
    ASSUME NEW e \in EngineRecord, e.pc \in Skills => e.attempt \in 1 .. MaxAttempts,
           NEW skill \in Skills
    PROVE  share(e, skill) \in 0 .. MaxAttempts
BY EngineAssumption DEF share, Skills

\* The engine starts of a skill what its share of the attempt allows.
LEMMA EngineSpends ==
    ASSUME NEW k, NEW e \in EngineRecord, NEW f \in EngineRecord,
           NEW counts \in [StepId -> [Skills -> Nat]],
           NEW after \in [StepId -> [Skills -> Nat]],
           NEW head \in StepId, head = k.order[k.position + 1],
           k.invoking, k.steps[head] # "CREATED", Spent(k, e, counts),
           f.pc \in Skills => f.attempt \in 1 .. MaxAttempts,
           \A i \in StepId \ {head} : after[i] = counts[i],
           \A skill \in Skills :
               after[head][skill] + share(e, skill) <= counts[head][skill] + share(f, skill)
    PROVE  Spent(k, f, after)
<1>1. MaxAttempts \in Nat /\ k.attempts \in 1 .. MaxAttempts
    BY EngineAssumption DEF Spent
<1> DEFINE past == MaxAttempts * (k.attempts - 1)
           all == MaxAttempts * MaxAttempts
<1>2. past \in Nat /\ past + MaxAttempts <= all /\ all \in Nat
    BY <1>1, Products
<1>3. ASSUME NEW skill \in Skills
      PROVE  after[head][skill] <= past + share(f, skill) /\ after[head][skill] <= all
    <2>1. share(e, skill) \in 0 .. MaxAttempts /\ share(f, skill) \in 0 .. MaxAttempts
        BY Shares DEF Spent
    <2>2. counts[head][skill] <= past + share(e, skill)
        BY DEF Spent
    <2>3. after[head][skill] \in Nat /\ counts[head][skill] \in Nat
        OBVIOUS
    <2>4. after[head][skill] + share(e, skill) <= counts[head][skill] + share(f, skill)
        OBVIOUS
    <2> DEFINE x == after[head][skill]
               y == counts[head][skill]
               u == share(e, skill)
               v == share(f, skill)
    <2>5. x \in Nat /\ y \in Nat /\ u \in 0 .. MaxAttempts /\ v \in 0 .. MaxAttempts
        BY <2>1, <2>3
    <2>6. x + u <= y + v /\ y <= past + u
        BY <2>2, <2>4
    <2> HIDE DEF past, all, x, y, u, v
    <2>7. x <= past + v /\ x <= all
        BY <1>1, <1>2, <2>5, <2>6
    <2> QED
        BY <2>7 DEF x, v
<1> HIDE DEF past, all
<1>4. ASSUME NEW i \in StepId, NEW skill \in Skills
      PROVE  /\ k.steps[i] = "CREATED" => after[i][skill] = 0
             /\ i = head => after[i][skill] <= past + share(f, skill)
             /\ after[i][skill] <= all
    <2>1. CASE i = head
        BY <1>3, <2>1
    <2>2. CASE i # head
        BY <2>2 DEF Spent, all
    <2> QED
        BY <2>1, <2>2
<1> QED
    BY <1>1, <1>4 DEF Spent, past, all

\* When the supervisor counts an attempt the engine begins anew.
LEMMA AttemptSpent ==
    ASSUME NEW k, NEW e \in EngineRecord, NEW counts \in [StepId -> [Skills -> Nat]],
           NEW head \in StepId, head = k.order[k.position + 1],
           k.invoking, Spent(k, e, counts)
    PROVE  \A skill \in Skills : counts[head][skill] <= MaxAttempts * k.attempts
<1>1. MaxAttempts \in Nat /\ k.attempts \in 1 .. MaxAttempts
    BY EngineAssumption DEF Spent
<1> DEFINE past == MaxAttempts * (k.attempts - 1)
           now == MaxAttempts * k.attempts
<1>2. past \in Nat /\ past + MaxAttempts = now
    BY <1>1, Products
<1>3. ASSUME NEW skill \in Skills
      PROVE  counts[head][skill] <= now
    <2>1. share(e, skill) \in 0 .. MaxAttempts
        BY Shares DEF Spent
    <2>2. counts[head][skill] <= past + share(e, skill) /\ counts[head][skill] \in Nat
        BY DEF Spent
    <2> HIDE DEF past, now
    <2> QED
        BY <1>1, <1>2, <2>1, <2>2
<1> QED
    BY <1>3

\* A step of the engine for one session.
LEMMA OneSessionSpends ==
    ASSUME SpentInv, NEW s \in Session,
           \A t \in Session \ {s} :
               session'[t] = session[t] /\ engine'[t] = engine[t] /\ invoked'[t] = invoked[t],
           Spent(session'[s], engine'[s], invoked'[s])
    PROVE  SpentInv'
<1>1. ASSUME NEW t \in Session PROVE Spent(session'[t], engine'[t], invoked'[t])
    <2>1. CASE t = s
        BY <2>1
    <2>2. CASE t # s
        BY <2>2 DEF SpentInv
    <2> QED
        BY <2>1, <2>2
<1> QED
    BY <1>1 DEF SpentInv

LEMMA StartSpends ==
    ASSUME SpentInv, NEW s \in Session, NEW k, NEW head, InAttempt(s, k, head),
           NEW skill \in Skills, NEW n \in 1 .. MaxAttempts,
           start(s, skill, n), session' = session,
           \/ engine[s].pc = "idle" /\ skill = "primary" /\ n = 1
           \/ engine[s].pc = skill /\ n = engine[s].attempt + 1
           \/ engine[s].pc = "primary" /\ skill = "fallback" /\ n = 1
    PROVE  SpentInv'
<1> DEFINE counts == invoked[s]
           e == engine[s]
           f == [pc |-> skill, attempt |-> n, outcome |-> noOutcome]
           mine == [counts[head] EXCEPT ![skill] = counts[head][skill] + 1]
           after == [counts EXCEPT ![head] = mine]
<1>1. head \in StepId /\ k.steps[head] # "CREATED" /\ head = k.order[k.position + 1]
      /\ k.invoking /\ session[s] = k
    BY NothingYet DEF InAttempt
<1>2. /\ counts \in [StepId -> [Skills -> Nat]]
      /\ invoked \in [Session -> [StepId -> [Skills -> Nat]]]
      /\ engine \in [Session -> EngineRecord] /\ e \in EngineRecord
      /\ Spent(k, e, counts)
    BY <1>1 DEF InAttempt, HeardInv, HistoryOK, SpentInv
<1>3. invoked' = [invoked EXCEPT ![s] = after] /\ engine' = [engine EXCEPT ![s] = f]
    <2>1. head = Supervisor!currentStep(s)
        BY DEF Supervisor!currentStep, InAttempt
    <2> QED
        BY <2>1 DEF start
<1>4. mine \in [Skills -> Nat] /\ mine[skill] = counts[head][skill] + 1
      /\ \A other \in Skills \ {skill} : mine[other] = counts[head][other]
    BY <1>1, <1>2
<1>5. f \in EngineRecord /\ f.pc = skill /\ f.attempt = n
    BY EngineAssumption DEF EngineRecord, Skills, EngineOutcome
<1> HIDE DEF f, mine
<1>6. /\ after \in [StepId -> [Skills -> Nat]] /\ after[head] = mine
      /\ \A i \in StepId \ {head} : after[i] = counts[i]
    BY <1>1, <1>2, <1>4
<1>7. ASSUME NEW other \in Skills
      PROVE  mine[other] + share(e, other) <= counts[head][other] + share(f, other)
    <2>1. share(e, other) \in 0 .. MaxAttempts /\ share(f, other) \in 0 .. MaxAttempts
        BY <1>2, <1>5, Shares DEF Spent
    <2>2. /\ counts[head][other] \in Nat /\ mine[other] \in Nat
          /\ mine[other] = IF other = skill THEN counts[head][other] + 1
                           ELSE counts[head][other]
        BY <1>1, <1>2, <1>4
    <2>3. /\ other = skill => share(f, other) = share(e, other) + 1
          /\ other # skill => share(f, other) >= share(e, other)
        <3>1. MaxAttempts \in Nat /\ e.attempt \in Nat /\ n \in Nat
            BY <1>2, EngineAssumption DEF EngineRecord
        <3>2. CASE engine[s].pc = "idle" /\ skill = "primary" /\ n = 1
            BY <1>5, <3>1, <3>2 DEF share, Skills
        <3>3. CASE engine[s].pc = skill /\ n = engine[s].attempt + 1
            BY <1>5, <3>1, <3>3 DEF share, Skills
        <3>4. CASE engine[s].pc = "primary" /\ skill = "fallback" /\ n = 1
            <4>1. share(e, "primary") <= MaxAttempts
                BY <1>2, <3>1, <3>4, Shares DEF Spent, Skills
            <4> QED
                BY <1>5, <3>1, <3>4, <4>1 DEF share, Skills
        <3> QED
            BY <3>2, <3>3, <3>4
    <2> DEFINE x == mine[other]
               y == counts[head][other]
               u == share(e, other)
               v == share(f, other)
    <2>4. x \in Nat /\ y \in Nat /\ u \in 0 .. MaxAttempts /\ v \in 0 .. MaxAttempts
        BY <2>1, <2>2
    <2>5. \/ x = y + 1 /\ v = u + 1
          \/ x = y /\ v >= u
        BY <2>2, <2>3
    <2> HIDE DEF x, y, u, v
    <2>6. x + u <= y + v
        BY <2>4, <2>5, EngineAssumption
    <2> QED
        BY <2>6 DEF x, y, u, v
<1> HIDE DEF after, e, counts
<1>8. Spent(k, f, after)
    BY <1>1, <1>2, <1>5, <1>6, <1>7, EngineSpends
<1>9. /\ engine'[s] = f /\ invoked'[s] = after /\ session'[s] = k
      /\ \A t \in Session \ {s} :
             session'[t] = session[t] /\ engine'[t] = engine[t] /\ invoked'[t] = invoked[t]
    BY <1>1, <1>2, <1>3
<1> QED
    BY <1>8, <1>9, OneSessionSpends

LEMMA AnswerSpends ==
    ASSUME SpentInv, NEW s \in Session, NEW k, NEW head, InAttempt(s, k, head),
           NEW outcome \in EngineOutcome, answer(s, outcome), session' = session
    PROVE  SpentInv'
<1> DEFINE counts == invoked[s]
           e == engine[s]
           f == [e EXCEPT !.pc = "answered", !.outcome = outcome]
<1>1. head \in StepId /\ k.steps[head] # "CREATED" /\ head = k.order[k.position + 1]
      /\ k.invoking /\ session[s] = k
    BY NothingYet DEF InAttempt
<1>2. /\ counts \in [StepId -> [Skills -> Nat]] /\ invoked' = invoked
      /\ engine \in [Session -> EngineRecord] /\ e \in EngineRecord
      /\ Spent(k, e, counts)
    BY <1>1 DEF InAttempt, HeardInv, HistoryOK, SpentInv, answer
<1>3. engine' = [engine EXCEPT ![s] = f]
    BY <1>2 DEF answer, EngineRecord
<1>4. f \in EngineRecord /\ f.pc = "answered"
    BY <1>2 DEF EngineRecord
<1> HIDE DEF f
<1>5. ASSUME NEW skill \in Skills
      PROVE  counts[head][skill] + share(e, skill) <= counts[head][skill] + share(f, skill)
    <2>1. share(e, skill) \in 0 .. MaxAttempts /\ share(f, skill) = MaxAttempts
        BY <1>2, <1>4, Shares DEF Spent, share, Skills
    <2>2. counts[head][skill] \in Nat
        BY <1>1, <1>2
    <2> DEFINE y == counts[head][skill]
               u == share(e, skill)
    <2> HIDE DEF y, u
    <2>3. y + u <= y + MaxAttempts
        BY <2>1, <2>2, EngineAssumption DEF y, u
    <2> QED
        BY <2>1, <2>3 DEF y, u
<1>6. f.pc \notin Skills
    BY <1>4 DEF Skills
<1> HIDE DEF e, counts
<1>7. Spent(k, f, counts)
    BY <1>1, <1>2, <1>4, <1>5, <1>6, EngineSpends
<1>8. /\ engine'[s] = f /\ invoked'[s] = counts /\ session'[s] = k
      /\ \A t \in Session \ {s} :
             session'[t] = session[t] /\ engine'[t] = engine[t] /\ invoked'[t] = invoked[t]
    BY <1>1, <1>2, <1>3 DEF counts
<1> QED
    BY <1>7, <1>8, OneSessionSpends

\* The session that the engine works for.
LEMMA InAttemptOf ==
    ASSUME Knowing, NEW s \in Session,
           awaiting(s) \/ (session[s].invoking /\ engine[s].pc = "idle")
    PROVE  InAttempt(s, session[s], session[s].order[session[s].position + 1])
<1>1. Heard(session[s], engine[s], said[s], invoked[s])
    BY DEF Knowing, HeardInv
<1> QED
    BY <1>1 DEF InAttempt, awaiting, Knowing, EngineInv, Heard, Skills

LEMMA AttemptSpends ==
    ASSUME Knowing, SpentInv, NEW s \in Session, awaiting(s), NEW outcome \in EngineOutcome,
           attemptEnds(s, outcome), session' = session
    PROVE  SpentInv'
<1>1. PICK k, head : InAttempt(s, k, head)
    BY InAttemptOf
<1>2. /\ engine[s] \in EngineRecord /\ engine[s].pc \in Skills
      /\ Spent(session[s], engine[s], invoked[s])
      /\ MaxAttempts \in Nat /\ 1 \in 1 .. MaxAttempts
    BY EngineAssumption DEF awaiting, Knowing, EngineInv, SpentInv
<1>3. ASSUME retries(s, outcome), start(s, engine[s].pc, engine[s].attempt + 1)
      PROVE  SpentInv'
    <2>1. engine[s].attempt + 1 \in 1 .. MaxAttempts
        BY <1>2, <1>3 DEF retries, Spent
    <2>2. PICK skill \in Skills, n \in 1 .. MaxAttempts :
              skill = engine[s].pc /\ n = engine[s].attempt + 1
        BY <1>2, <2>1
    <2>3. start(s, skill, n)
        BY <1>3, <2>2
    <2> QED
        BY <1>1, <2>2, <2>3, StartSpends
<1>4. ASSUME engine[s].pc = "primary", start(s, "fallback", 1)
      PROVE  SpentInv'
    <2>1. "fallback" \in Skills
        BY DEF Skills
    <2> QED
        BY <1>1, <1>2, <1>4, <2>1, StartSpends
<1>5. ASSUME answer(s, outcome) PROVE SpentInv'
    BY <1>1, <1>5, AnswerSpends
<1> QED
    BY <1>3, <1>4, <1>5 DEF attemptEnds, fallsBack

\* What a session may spend when the supervisor has edited it.
LEMMA SessionSpends ==
    ASSUME Knowing, SpentInv, NEW s \in Session, NEW l, NEW f,
           session' = [session EXCEPT ![s] = l], engine' = [engine EXCEPT ![s] = f],
           invoked' = invoked, Spent(l, f, invoked[s])
    PROVE  SpentInv'
<1>1. /\ session \in [Session -> Supervised!SessionType]
      /\ engine \in [Session -> EngineRecord]
    BY DEF Knowing, Supervised!Explains, Supervised!TypeOK, EngineInv
<1>2. /\ engine'[s] = f /\ invoked'[s] = invoked[s] /\ session'[s] = l
      /\ \A t \in Session \ {s} :
             session'[t] = session[t] /\ engine'[t] = engine[t] /\ invoked'[t] = invoked[t]
    BY <1>1
<1> QED
    BY <1>2, OneSessionSpends

LEMMA SupervisorSpends ==
    ASSUME Knowing, SpentInv, NEW s \in Session,
           supervisorIsCalled(s) \/ supervisorGoesOn(s)
    PROVE  SpentInv'
<1> DEFINE k == session[s]
           e == engine[s]
           head == k.order[k.position + 1]
<1>1. /\ engine' = [engine EXCEPT ![s] = e] /\ invoked' = invoked
      /\ Spent(k, e, invoked[s]) /\ Heard(k, e, said[s], invoked[s])
      /\ e \in EngineRecord /\ invoked[s] \in [StepId -> [Skills -> Nat]]
    <2>1. engine \in [Session -> EngineRecord] /\ engine' = engine
        BY DEF Knowing, EngineInv, supervisorIsCalled, supervisorGoesOn
    <2> QED
        BY <2>1 DEF Knowing, HeardInv, HistoryOK, SpentInv, supervisorIsCalled,
                    supervisorGoesOn, history
<1>2. /\ k \in Supervised!SessionType
      /\ k.state = "NONE" => ~ k.invoking
      /\ k.state = "RUNNING" /\ ~ k.invoking /\ k.position < Len(k.order) =>
             head \in StepId /\ k.steps[head] = "CREATED"
      /\ session \in [Session -> Supervised!SessionType]
    <2>1. Supervised!Explains
        BY DEF Knowing
    <2> QED
        BY <2>1, HeadOfLoop DEF Supervised!Explains, Supervised!TypeOK
<1>3. ASSUME NEW l, session' = [session EXCEPT ![s] = l], ~ l.invoking, l.steps = k.steps
      PROVE  SpentInv'
    <2>1. Spent(l, e, invoked[s])
        BY <1>1, <1>3 DEF Spent
    <2> QED
        BY <1>1, <1>3, <2>1, SessionSpends
<1>4. ASSUME session' = session PROVE SpentInv'
    BY <1>1, <1>4, SessionSpends, <1>2
<1>5. ASSUME NEW plan \in Plan, Supervisor!begin(s, plan) PROVE SpentInv'
    <2> DEFINE l == [k EXCEPT !.state = "RUNNING", !.plan = plan,
                              !.order = Supervisor!ordered(plan)]
    <2>1. session' = [session EXCEPT ![s] = l] /\ ~ k.invoking
        BY <1>2, <1>5 DEF Supervisor!begin, Supervised!SessionType
    <2>2. l.steps = k.steps /\ l.invoking = k.invoking
        BY <1>2 DEF Supervised!SessionType
    <2> HIDE DEF l, k
    <2> QED
        BY <1>3, <2>1, <2>2
<1>6. ASSUME NEW plan \in Plan, Supervisor!beginThrows(s, plan) PROVE SpentInv'
    <2> DEFINE l == [k EXCEPT !.state = "READY", !.plan = plan]
    <2>1. session' = [session EXCEPT ![s] = l] /\ ~ k.invoking
        BY <1>2, <1>6 DEF Supervisor!beginThrows, Supervised!SessionType
    <2>2. l.steps = k.steps /\ l.invoking = k.invoking
        BY <1>2 DEF Supervised!SessionType
    <2> HIDE DEF l, k
    <2> QED
        BY <1>3, <2>1, <2>2
<1>7. ASSUME Supervisor!cancel(s) PROVE SpentInv'
    BY <1>4, <1>7 DEF Supervisor!cancel
<1>8. ASSUME Supervisor!observeCancel(s) \/ Supervisor!complete(s) PROVE SpentInv'
    <2>1. PICK state \in {"CANCELLED", "COMPLETED"} : session' = [session EXCEPT ![s].state = state]
        BY <1>8 DEF Supervisor!observeCancel, Supervisor!complete
    <2> DEFINE l == [k EXCEPT !.state = state]
    <2>2. session' = [session EXCEPT ![s] = l] /\ ~ k.invoking
        BY <1>2, <1>8, <2>1 DEF Supervisor!observeCancel, Supervisor!complete, Supervisor!atBoundary
    <2>3. l.steps = k.steps /\ l.invoking = k.invoking
        BY <1>2 DEF Supervised!SessionType
    <2> HIDE DEF l, k
    <2> QED
        BY <1>3, <2>2, <2>3
<1>9. ASSUME Supervisor!startStep(s) PROVE SpentInv'
    <2>1. /\ k.state = "RUNNING" /\ ~ k.invoking /\ k.position < Len(k.order)
          /\ session' = [session EXCEPT ![s].steps[head] = "RUNNING", ![s].attempts = 1,
                                        ![s].invoking = TRUE]
        BY <1>9 DEF Supervisor!startStep, Supervisor!atBoundary, Supervisor!stepsLeft,
                    Supervisor!currentStep
    <2> DEFINE steps == [k.steps EXCEPT ![head] = "RUNNING"]
               l == [k EXCEPT !.steps = steps, !.attempts = 1, !.invoking = TRUE]
    <2>2. session' = [session EXCEPT ![s] = l]
        BY <1>2, <2>1 DEF Supervised!SessionType
    <2>3. /\ l.steps = steps /\ l.attempts = 1 /\ l.invoking
          /\ l.order = k.order /\ l.position = k.position
        BY <1>2 DEF Supervised!SessionType
    <2>4. \A i \in StepId : i # head => steps[i] = k.steps[i]
        BY <1>2, <2>1 DEF Supervised!SessionType
    <2>5. head \in StepId /\ k.steps[head] = "CREATED" /\ steps[head] = "RUNNING"
        BY <1>2, <2>1 DEF Supervised!SessionType
    <2>6. e.pc = "idle"
        BY <1>1, <2>1 DEF Heard
    <2>7. MaxAttempts \in Nat /\ 1 \in 1 .. MaxAttempts /\ MaxAttempts * (1 - 1) = 0
        BY EngineAssumption
    <2>8. \A skill \in Skills : invoked[s][head][skill] = 0 /\ share(e, skill) = 0
        BY <1>1, <2>5, <2>6 DEF Spent, share, Skills
    <2> HIDE DEF l, steps
    <2>9. Spent(l, e, invoked[s])
        BY <1>1, <2>3, <2>4, <2>5, <2>6, <2>7, <2>8 DEF Spent, Skills
    <2> HIDE DEF e, k
    <2> QED
        BY <1>1, <2>2, <2>9, SessionSpends
<1> QED
    BY <1>5, <1>6, <1>7, <1>8, <1>9 DEF supervisorIsCalled, supervisorGoesOn, Supervisor!ownStep

LEMMA ResponseSpends ==
    ASSUME Knowing, SpentInv, NEW s \in Session, respond(s)
    PROVE  SpentInv'
<1> DEFINE k == session[s]
           e == engine[s]
           head == k.order[k.position + 1]
           counts == invoked[s]
           read == toInvocation(e.outcome)
<1>1. /\ engine' = [engine EXCEPT ![s] = Idle] /\ invoked' = invoked
      /\ Spent(k, e, counts) /\ Heard(k, e, said[s], counts)
      /\ e \in EngineRecord /\ e.pc = "answered" /\ counts \in [StepId -> [Skills -> Nat]]
      /\ \/ Supervisor!stepSucceeds(s, read)
         \/ Supervisor!retryStep(s, read)
         \/ Supervisor!stepFails(s, read)
    BY DEF Knowing, HeardInv, HistoryOK, EngineInv, SpentInv, respond, history
<1>2. /\ k.invoking /\ k \in Supervised!SessionType /\ head \in StepId
      /\ k.steps[head] \in {"RUNNING", "RETRYING"}
      /\ session \in [Session -> Supervised!SessionType]
    <2>1. Supervised!Explains /\ k.invoking
        BY <1>1 DEF Knowing, Heard
    <2> QED
        BY <2>1, HeadOfLoop DEF Supervised!Explains, Supervised!TypeOK
<1>3. head = Supervisor!currentStep(s)
    BY DEF Supervisor!currentStep
<1>4. Idle.pc \notin Skills /\ \A skill \in Skills : share(Idle, skill) = 0
    BY DEF Idle, Skills, share
<1>5. ASSUME NEW l, NEW state, state # "CREATED",
             session' = [session EXCEPT ![s] = l],
             l.steps = [k.steps EXCEPT ![head] = state],
             l.invoking =>
                 /\ l.order = k.order /\ l.position = k.position
                 /\ k.attempts < MaxAttempts /\ l.attempts = k.attempts + 1
      PROVE  SpentInv'
    <2>1. /\ l.steps[head] = state
          /\ \A i \in StepId \ {head} : l.steps[i] = k.steps[i]
        BY <1>2, <1>5 DEF Supervised!SessionType
    <2>2. /\ k.attempts \in 1 .. MaxAttempts /\ MaxAttempts \in Nat
          /\ l.invoking => l.attempts \in 1 .. MaxAttempts /\ l.attempts - 1 = k.attempts
        BY <1>1, <1>2, <1>5, EngineAssumption DEF Spent
    <2>3. \A skill \in Skills : counts[head][skill] <= MaxAttempts * k.attempts
        BY <1>1, <1>2, AttemptSpent
    <2>4. MaxAttempts * k.attempts \in Nat
        BY <2>2, Products
    <2>5. ASSUME l.invoking, NEW skill \in Skills
          PROVE  counts[head][skill] <= MaxAttempts * (l.attempts - 1) + share(Idle, skill)
        <3>1. l.attempts - 1 = k.attempts /\ share(Idle, skill) = 0
            BY <1>4, <2>2, <2>5
        <3>2. counts[head][skill] \in Nat
            BY <1>1, <1>2
        <3> DEFINE now == MaxAttempts * k.attempts
        <3>3. counts[head][skill] <= now /\ now \in Nat
            BY <2>3, <2>4
        <3> HIDE DEF now
        <3>4. counts[head][skill] <= now + 0
            BY <3>2, <3>3
        <3> QED
            BY <3>1, <3>4 DEF now
    <2>6. ASSUME NEW i \in StepId, NEW skill \in Skills
          PROVE  /\ l.steps[i] = "CREATED" => counts[i][skill] = 0
                 /\ counts[i][skill] <= MaxAttempts * MaxAttempts
        BY <1>1, <1>5, <2>1 DEF Spent
    <2> HIDE DEF k, e, head, counts
    <2>7. Spent(l, Idle, counts)
        BY <1>4, <1>5, <2>2, <2>5, <2>6 DEF Spent, head
    <2> QED
        BY <1>1, <1>5, <2>7, SessionSpends DEF counts
<1>6. ASSUME Supervisor!stepSucceeds(s, read) PROVE SpentInv'
    <2> DEFINE steps == [k.steps EXCEPT ![head] = "COMPLETED"]
               l == [k EXCEPT !.steps = steps, !.position = k.position + 1, !.invoking = FALSE]
    <2>1. session' = [session EXCEPT ![s] = l]
        BY <1>2, <1>3, <1>6 DEF Supervisor!stepSucceeds, Supervised!SessionType
    <2>2. l.steps = steps /\ ~ l.invoking
        BY <1>2 DEF Supervised!SessionType
    <2> HIDE DEF l, k, head
    <2> QED
        BY <1>5, <2>1, <2>2
<1>7. ASSUME Supervisor!retryStep(s, read) PROVE SpentInv'
    <2> DEFINE steps == [k.steps EXCEPT ![head] = "RETRYING"]
               l == [k EXCEPT !.steps = steps, !.attempts = k.attempts + 1]
    <2>1. session' = [session EXCEPT ![s] = l] /\ k.attempts < MaxAttempts
        BY <1>2, <1>3, <1>7 DEF Supervisor!retryStep, Supervisor!mayRetry, Supervised!SessionType
    <2>2. /\ l.steps = steps /\ l.attempts = k.attempts + 1
          /\ l.order = k.order /\ l.position = k.position
        BY <1>2 DEF Supervised!SessionType
    <2> HIDE DEF l, k, head
    <2> QED
        BY <1>5, <2>1, <2>2
<1>8. ASSUME Supervisor!stepFails(s, read) PROVE SpentInv'
    <2>1. PICK final \in {"FAILED", "TIMED_OUT"} :
              session' = [session EXCEPT ![s].steps[Supervisor!currentStep(s)] = final,
                                         ![s].state = final, ![s].invoking = FALSE]
        BY <1>8 DEF Supervisor!stepFails
    <2> DEFINE steps == [k.steps EXCEPT ![head] = final]
               l == [k EXCEPT !.steps = steps, !.state = final, !.invoking = FALSE]
    <2>2. session' = [session EXCEPT ![s] = l]
        BY <1>2, <1>3, <2>1 DEF Supervised!SessionType
    <2>3. l.steps = steps /\ ~ l.invoking /\ final # "CREATED"
        BY <1>2 DEF Supervised!SessionType
    <2> HIDE DEF l, k, head
    <2> QED
        BY <1>5, <2>2, <2>3
<1> QED
    BY <1>1, <1>6, <1>7, <1>8

LEMMA StepSpends ==
    ASSUME Knowing, SpentInv, [Next]_vars
    PROVE  SpentInv'
<1>1. ASSUME session' = session, engine' = engine, invoked' = invoked
      PROVE  SpentInv'
    BY <1>1 DEF SpentInv
<1>2. ASSUME NEW s \in Session, enter(s) PROVE SpentInv'
    <2>1. PICK k, head : InAttempt(s, k, head)
        BY <1>2, InAttemptOf DEF enter
    <2>2. session' = session /\ engine[s].pc = "idle"
        BY <1>2 DEF enter
    <2>3. budgetExceeded \in EngineOutcome /\ skillNotFound \in EngineOutcome
        BY DEF EngineOutcome
    <2>4. 1 \in 1 .. MaxAttempts /\ "primary" \in Skills
        BY EngineAssumption DEF Skills
    <2>5. ASSUME start(s, "primary", 1) PROVE SpentInv'
        BY <2>1, <2>2, <2>4, <2>5, StartSpends
    <2>6. ASSUME NEW outcome \in EngineOutcome, answer(s, outcome) PROVE SpentInv'
        BY <2>1, <2>2, <2>6, AnswerSpends
    <2> QED
        BY <1>2, <2>3, <2>5, <2>6 DEF enter
<1>3. ASSUME NEW s \in Session, skillAnswers(s) PROVE SpentInv'
    <2>1. PICK outcome \in SkillOutcome : attemptEnds(s, outcome)
        BY <1>3 DEF skillAnswers
    <2>2. outcome \in EngineOutcome
        BY OutcomesDiffer
    <2> QED
        BY <1>3, <2>1, <2>2, AttemptSpends DEF skillAnswers
<1>4. ASSUME NEW s \in Session, timerFires(s) PROVE SpentInv'
    <2>1. PICK outcome \in EngineOutcome : outcome = timedOut
        BY DEF EngineOutcome
    <2> QED
        BY <1>4, <2>1, AttemptSpends DEF timerFires
<1>5. ASSUME NEW s \in Session, respond(s) PROVE SpentInv'
    BY <1>5, ResponseSpends
<1>6. ASSUME NEW s \in Session, supervisorIsCalled(s) \/ supervisorGoesOn(s) PROVE SpentInv'
    BY <1>6, SupervisorSpends
<1>7. ASSUME NEW s \in Session, NEW i \in StepId, lateAnswer(s, i) PROVE SpentInv'
    BY <1>1, <1>7 DEF lateAnswer
<1>8. ASSUME UNCHANGED vars PROVE SpentInv'
    BY <1>1, <1>8 DEF vars
<1> QED
    BY <1>2, <1>3, <1>4, <1>5, <1>6, <1>7, <1>8 DEF Next, engineStep

LEMMA InitSpends == Init => SpentInv
<1> SUFFICES ASSUME Init, NEW s \in Session PROVE Spent(session[s], engine[s], invoked[s])
    BY DEF SpentInv
<1>1. /\ session[s].invoking = FALSE /\ engine[s].pc = "idle"
      /\ \A i \in StepId, skill \in Skills : invoked[s][i][skill] = 0
    BY DEF Init, Supervisor!Init, Supervisor!NoSession, Idle
<1>2. 0 <= MaxAttempts * MaxAttempts
    BY EngineAssumption
<1> QED
    BY <1>1, <1>2 DEF Spent, Skills

\* The retries of the engine and the ones of the supervisor multiply, and do not
\* do more than that: however a step goes, each of its skills is started at most
\* MaxAttempts times for each of at most MaxAttempts attempts.
StartsAreBounded ==
    invoked \in [Session -> [StepId -> [Skills -> 0 .. MaxInvocations]]]

LEMMA Bounded == ASSUME Knowing, SpentInv PROVE StartsAreBounded
<1>1. invoked \in [Session -> [StepId -> [Skills -> Nat]]]
    BY DEF Knowing, HeardInv, HistoryOK
<1>2. ASSUME NEW s \in Session, NEW i \in StepId, NEW skill \in Skills
      PROVE  invoked[s][i][skill] \in 0 .. MaxInvocations
    <2>1. invoked[s][i][skill] \in Nat /\ MaxInvocations \in Nat
        BY <1>1, EngineAssumption DEF MaxInvocations
    <2>2. invoked[s][i][skill] <= MaxInvocations
        BY DEF SpentInv, Spent, MaxInvocations
    <2> QED
        BY <2>1, <2>2
<1> QED
    BY <1>1, <1>2 DEF StartsAreBounded

\* No catalog, no timeouts and no answers make a skill start more often.
THEOREM RetriesMultiply == Spec => []StartsAreBounded
<1>1. Knowing /\ SpentInv => StartsAreBounded
    BY Bounded
<1>2. Knowing /\ SpentInv /\ [Next]_vars => SpentInv'
    BY StepSpends
<1> QED
    BY <1>1, <1>2, InitSpends, AlwaysHeard, PTL DEF Spec

-----------------------------------------------------------------------------
(* What timeouts leave running.                                             *)

startedFor(counts, i) == counts[i]["primary"] + counts[i]["fallback"]

\* Every attempt that runs on was started for its step, and the one that is
\* awaited is none of them.
Left(k, e, counts, a) ==
    /\ e.attempt \in 0 .. MaxAttempts
    /\ \A i \in StepId :
           /\ a[i] <= startedFor(counts, i)
           /\ e.pc \in Skills /\ i = k.order[k.position + 1] => a[i] < startedFor(counts, i)

LeftInv ==
    /\ abandoned \in [Session -> [StepId -> Nat]] /\ policy \in [Session -> Policy]
    /\ late \in [Session -> SUBSET StepId]
    /\ \A s \in Session : Left(session[s], engine[s], invoked[s], abandoned[s])

\* A step of one session.
LEMMA OneSessionLeaves ==
    ASSUME LeftInv, NEW s \in Session, policy' = policy,
           late' \in [Session -> SUBSET StepId], abandoned' \in [Session -> [StepId -> Nat]],
           \A t \in Session \ {s} :
               /\ session'[t] = session[t] /\ engine'[t] = engine[t]
               /\ invoked'[t] = invoked[t] /\ abandoned'[t] = abandoned[t],
           Left(session'[s], engine'[s], invoked'[s], abandoned'[s])
    PROVE  LeftInv'
<1>1. ASSUME NEW t \in Session
      PROVE  Left(session'[t], engine'[t], invoked'[t], abandoned'[t])
    <2>1. CASE t = s
        BY <2>1
    <2>2. CASE t # s
        BY <2>2 DEF LeftInv
    <2> QED
        BY <2>1, <2>2
<1> QED
    BY <1>1 DEF LeftInv

\* An attempt that a timer ends runs on, and another one may take its place.
LEMMA StartLeaves ==
    ASSUME LeftInv, NEW s \in Session, NEW k, NEW head, InAttempt(s, k, head),
           NEW skill \in Skills, NEW n \in 1 .. MaxAttempts,
           start(s, skill, n), session' = session, policy' = policy, late' = late,
           NEW b \in Nat, abandoned' = [abandoned EXCEPT ![s][head] = b],
           b <= startedFor(invoked[s], head)
    PROVE  LeftInv'
<1> DEFINE counts == invoked[s]
           f == [pc |-> skill, attempt |-> n, outcome |-> noOutcome]
           mine == [counts[head] EXCEPT ![skill] = counts[head][skill] + 1]
           after == [counts EXCEPT ![head] = mine]
           left == [abandoned[s] EXCEPT ![head] = b]
<1>1. head \in StepId /\ head = k.order[k.position + 1] /\ session[s] = k
    BY NothingYet DEF InAttempt
<1>2. /\ counts \in [StepId -> [Skills -> Nat]] /\ abandoned[s] \in [StepId -> Nat]
      /\ invoked \in [Session -> [StepId -> [Skills -> Nat]]]
      /\ engine \in [Session -> EngineRecord] /\ late \in [Session -> SUBSET StepId]
      /\ abandoned \in [Session -> [StepId -> Nat]]
      /\ Left(k, engine[s], counts, abandoned[s])
    BY <1>1 DEF InAttempt, HeardInv, HistoryOK, LeftInv
<1>3. /\ invoked' = [invoked EXCEPT ![s] = after] /\ engine' = [engine EXCEPT ![s] = f]
      /\ abandoned' = [abandoned EXCEPT ![s] = left]
    <2>1. head = Supervisor!currentStep(s)
        BY DEF Supervisor!currentStep, InAttempt
    <2> QED
        BY <2>1 DEF start
<1>4. startedFor(counts, head) \in Nat /\ startedFor(after, head) = startedFor(counts, head) + 1
    <2>1. mine["primary"] + mine["fallback"] =
              counts[head]["primary"] + counts[head]["fallback"] + 1
        BY <1>1, <1>2 DEF Skills
    <2>2. after[head] = mine
        BY <1>1, <1>2
    <2> QED
        BY <1>1, <1>2, <2>1, <2>2 DEF startedFor, Skills
<1>5. f.attempt \in 0 .. MaxAttempts
    BY EngineAssumption
<1>6. /\ left \in [StepId -> Nat] /\ left[head] = b
      /\ \A i \in StepId \ {head} :
             left[i] = abandoned[s][i] /\ startedFor(after, i) = startedFor(counts, i)
    BY <1>1, <1>2 DEF startedFor
<1> HIDE DEF mine, after, left, f, counts
<1>7. Left(k, f, after, left)
    <2>1. /\ left[head] <= startedFor(after, head)
          /\ left[head] < startedFor(after, head)
        BY <1>4, <1>6 DEF counts
    <2>2. ASSUME NEW i \in StepId \ {head} PROVE left[i] <= startedFor(after, i)
        BY <1>2, <1>6, <2>2 DEF Left
    <2> QED
        BY <1>1, <1>5, <2>1, <2>2 DEF Left
<1>8. /\ engine'[s] = f /\ invoked'[s] = after /\ session'[s] = k /\ abandoned'[s] = left
      /\ abandoned' \in [Session -> [StepId -> Nat]] /\ late' \in [Session -> SUBSET StepId]
      /\ \A t \in Session \ {s} :
             /\ session'[t] = session[t] /\ engine'[t] = engine[t]
             /\ invoked'[t] = invoked[t] /\ abandoned'[t] = abandoned[t]
    BY <1>1, <1>2, <1>3, <1>6
<1> QED
    BY <1>7, <1>8, OneSessionLeaves

LEMMA AnswerLeaves ==
    ASSUME LeftInv, NEW s \in Session, NEW k, NEW head, InAttempt(s, k, head),
           NEW outcome, answer(s, outcome), session' = session, policy' = policy, late' = late,
           NEW b \in Nat, abandoned' = [abandoned EXCEPT ![s][head] = b],
           b <= startedFor(invoked[s], head)
    PROVE  LeftInv'
<1> DEFINE counts == invoked[s]
           e == engine[s]
           f == [e EXCEPT !.pc = "answered", !.outcome = outcome]
           left == [abandoned[s] EXCEPT ![head] = b]
<1>1. head \in StepId /\ session[s] = k
    BY NothingYet DEF InAttempt
<1>2. /\ invoked' = invoked /\ abandoned \in [Session -> [StepId -> Nat]]
      /\ engine \in [Session -> EngineRecord] /\ e \in EngineRecord
      /\ late \in [Session -> SUBSET StepId] /\ Left(k, e, counts, abandoned[s])
    BY <1>1 DEF InAttempt, LeftInv, answer
<1>3. engine' = [engine EXCEPT ![s] = f] /\ abandoned' = [abandoned EXCEPT ![s] = left]
    BY <1>2 DEF answer, EngineRecord
<1>4. f.pc \notin Skills /\ f.attempt = e.attempt
    BY <1>2 DEF EngineRecord, Skills
<1>5. /\ left \in [StepId -> Nat] /\ left[head] = b
      /\ \A i \in StepId \ {head} : left[i] = abandoned[s][i]
    BY <1>1, <1>2
<1> HIDE DEF f, left
<1>6. Left(k, f, counts, left)
    BY <1>2, <1>4, <1>5 DEF Left
<1> HIDE DEF e, counts
<1>7. /\ engine'[s] = f /\ invoked'[s] = counts /\ session'[s] = k /\ abandoned'[s] = left
      /\ abandoned' \in [Session -> [StepId -> Nat]] /\ late' \in [Session -> SUBSET StepId]
      /\ \A t \in Session \ {s} :
             /\ session'[t] = session[t] /\ engine'[t] = engine[t]
             /\ invoked'[t] = invoked[t] /\ abandoned'[t] = abandoned[t]
    BY <1>1, <1>2, <1>3, <1>5 DEF counts
<1> QED
    BY <1>6, <1>7, OneSessionLeaves

LEMMA AttemptLeaves ==
    ASSUME Knowing, SpentInv, LeftInv, NEW s \in Session, awaiting(s),
           NEW k, NEW head, InAttempt(s, k, head),
           NEW outcome \in EngineOutcome, attemptEnds(s, outcome),
           session' = session, policy' = policy, late' = late,
           NEW b \in Nat, abandoned' = [abandoned EXCEPT ![s][head] = b],
           b <= startedFor(invoked[s], head)
    PROVE  LeftInv'
<1>1. /\ engine[s].pc \in Skills /\ Spent(session[s], engine[s], invoked[s])
      /\ MaxAttempts \in Nat /\ 1 \in 1 .. MaxAttempts
    BY EngineAssumption DEF awaiting, SpentInv
<1>2. ASSUME retries(s, outcome), start(s, engine[s].pc, engine[s].attempt + 1)
      PROVE  LeftInv'
    <2>1. PICK skill \in Skills, n \in 1 .. MaxAttempts :
              skill = engine[s].pc /\ n = engine[s].attempt + 1
        BY <1>1, <1>2 DEF retries, Spent
    <2>2. start(s, skill, n)
        BY <1>2, <2>1
    <2> QED
        BY <2>2, StartLeaves
<1>3. ASSUME start(s, "fallback", 1)
      PROVE  LeftInv'
    <2>1. "fallback" \in Skills
        BY DEF Skills
    <2> QED
        BY <1>1, <1>3, <2>1, StartLeaves
<1>4. ASSUME answer(s, outcome) PROVE LeftInv'
    BY <1>4, AnswerLeaves
<1> QED
    BY <1>2, <1>3, <1>4 DEF attemptEnds

\* While no skill is awaited, whatever the supervisor does to its session leaves
\* the sums as they are.
LEMMA NobodyAwaited ==
    ASSUME LeftInv, NEW s \in Session, engine'[s].pc \notin Skills,
           engine'[s].attempt \in 0 .. MaxAttempts,
           UNCHANGED <<invoked, abandoned, policy, late>>,
           \A t \in Session \ {s} : session'[t] = session[t] /\ engine'[t] = engine[t]
    PROVE  LeftInv'
<1>1. Left(session'[s], engine'[s], invoked[s], abandoned[s])
    BY DEF LeftInv, Left
<1> QED
    BY <1>1, OneSessionLeaves DEF LeftInv

LEMMA SupervisorLeaves ==
    ASSUME Knowing, LeftInv, NEW s \in Session,
           supervisorIsCalled(s) \/ supervisorGoesOn(s)
    PROVE  LeftInv'
<1>1. UNCHANGED <<engine, invoked, abandoned, policy, late>>
    BY DEF supervisorIsCalled, supervisorGoesOn, history
<1>2. CASE session' = session
    BY <1>1, <1>2 DEF LeftInv
<1>3. CASE session' # session
    <2>1. /\ session \in [Session -> Supervised!SessionType]
          /\ session[s].state = "NONE" => ~ session[s].invoking
        <3>1. Supervised!Explains
            BY DEF Knowing
        <3> QED
            BY <3>1, HeadOfLoop DEF Supervised!Explains, Supervised!TypeOK
    <2>2. ~ session[s].invoking /\ \A t \in Session \ {s} : session'[t] = session[t]
        BY <1>3, <2>1 DEF supervisorIsCalled, supervisorGoesOn, Supervisor!begin,
           Supervisor!beginThrows, Supervisor!cancel, Supervisor!ownStep, Supervisor!startStep,
           Supervisor!observeCancel, Supervisor!complete, Supervisor!atBoundary
    <2>3. engine[s].pc = "idle" /\ engine[s].attempt \in 0 .. MaxAttempts
        BY <2>2 DEF Knowing, HeardInv, Heard, LeftInv, Left
    <2> QED
        BY <1>1, <2>2, <2>3, NobodyAwaited DEF Skills
<1> QED
    BY <1>2, <1>3

LEMMA ResponseLeaves ==
    ASSUME Knowing, LeftInv, NEW s \in Session, respond(s)
    PROVE  LeftInv'
<1>1. /\ engine \in [Session -> EngineRecord] /\ engine' = [engine EXCEPT ![s] = Idle]
      /\ session \in [Session -> Supervised!SessionType]
      /\ UNCHANGED <<invoked, abandoned, policy, late>>
    BY DEF respond, history, Knowing, EngineInv, Supervised!Explains, Supervised!TypeOK
<1>2. \A t \in Session \ {s} : session'[t] = session[t] /\ engine'[t] = engine[t]
    BY <1>1 DEF respond, Supervisor!stepSucceeds, Supervisor!retryStep, Supervisor!stepFails
<1>3. engine'[s].pc \notin Skills /\ engine'[s].attempt \in 0 .. MaxAttempts
    BY <1>1, EngineAssumption DEF Idle, Skills
<1> QED
    BY <1>1, <1>2, <1>3, NobodyAwaited

LEMMA StepLeaves ==
    ASSUME Knowing, SpentInv, LeftInv, [Next]_vars
    PROVE  LeftInv'
<1>1. ASSUME NEW s \in Session, enter(s) \/ skillAnswers(s) \/ timerFires(s) PROVE LeftInv'
    <2>1. PICK k, head : InAttempt(s, k, head)
        BY <1>1, InAttemptOf DEF enter, skillAnswers, timerFires
    <2>2. /\ head \in StepId /\ head = Supervisor!currentStep(s)
          /\ head = session[s].order[session[s].position + 1]
          /\ session' = session /\ policy' = policy /\ late' = late
        BY <1>1, <2>1, NothingYet
        DEF enter, skillAnswers, timerFires, InAttempt, Supervisor!currentStep
    <2>3. /\ abandoned \in [Session -> [StepId -> Nat]]
          /\ Left(session[s], engine[s], invoked[s], abandoned[s])
          /\ invoked[s] \in [StepId -> [Skills -> Nat]]
        BY DEF LeftInv, Knowing, HeardInv, HistoryOK
    <2> DEFINE a == abandoned[s][head]
               n == startedFor(invoked[s], head)
    <2>4. a \in Nat /\ n \in Nat /\ a <= n /\ (awaiting(s) => a < n)
        BY <2>2, <2>3 DEF Left, startedFor, Skills, awaiting
    <2>5. abandoned' = abandoned => abandoned' = [abandoned EXCEPT ![s][head] = a]
        BY <2>2, <2>3
    <2>6. CASE enter(s)
        <3>1. 1 \in 1 .. MaxAttempts /\ "primary" \in Skills
            BY EngineAssumption DEF Skills
        <3>2. abandoned' = [abandoned EXCEPT ![s][head] = a]
            BY <2>5, <2>6 DEF enter
        <3>3. ASSUME start(s, "primary", 1) PROVE LeftInv'
            BY <2>1, <2>2, <2>4, <3>1, <3>2, <3>3, StartLeaves
        <3>4. ASSUME NEW outcome, answer(s, outcome) PROVE LeftInv'
            BY <2>1, <2>2, <2>4, <3>2, <3>4, AnswerLeaves
        <3> QED
            BY <2>6, <3>3, <3>4 DEF enter
    <2>7. CASE skillAnswers(s)
        <3>1. PICK outcome \in SkillOutcome : attemptEnds(s, outcome)
            BY <2>7 DEF skillAnswers
        <3>2. outcome \in EngineOutcome
            BY OutcomesDiffer
        <3>3. awaiting(s) /\ abandoned' = [abandoned EXCEPT ![s][head] = a]
            BY <2>5, <2>7 DEF skillAnswers
        <3> QED
            BY <2>1, <2>2, <2>4, <3>1, <3>2, <3>3, AttemptLeaves
    <2>8. CASE timerFires(s)
        <3>1. PICK outcome \in EngineOutcome : outcome = timedOut
            BY DEF EngineOutcome
        <3>2. awaiting(s) /\ abandoned' = [abandoned EXCEPT ![s][head] = a + 1]
            BY <2>2, <2>8 DEF timerFires
        <3>3. attemptEnds(s, outcome)
            BY <2>8, <3>1 DEF timerFires
        <3>4. a + 1 \in Nat /\ a + 1 <= n
            <4> HIDE DEF a, n
            <4> QED
                BY <2>4, <3>2
        <3>5. PICK b \in Nat : b = a + 1
            BY <3>4
        <3>6. abandoned' = [abandoned EXCEPT ![s][head] = b] /\ b <= n
            BY <3>2, <3>4, <3>5
        <3> QED
            BY <2>1, <2>2, <3>2, <3>3, <3>6, AttemptLeaves
    <2> QED
        BY <1>1, <2>6, <2>7, <2>8
<1>2. ASSUME NEW s \in Session, respond(s) PROVE LeftInv'
    BY <1>2, ResponseLeaves
<1>3. ASSUME NEW s \in Session, supervisorIsCalled(s) \/ supervisorGoesOn(s) PROVE LeftInv'
    BY <1>3, SupervisorLeaves
<1>4. ASSUME NEW s \in Session, NEW i \in StepId, lateAnswer(s, i) PROVE LeftInv'
    <2> DEFINE left == [abandoned[s] EXCEPT ![i] = abandoned[s][i] - 1]
    <2>1. /\ session' = session /\ policy' = policy /\ engine' = engine /\ invoked' = invoked
          /\ late' \in [Session -> SUBSET StepId]
          /\ abandoned \in [Session -> [StepId -> Nat]] /\ abandoned[s][i] > 0
          /\ abandoned' = [abandoned EXCEPT ![s] = left]
          /\ Left(session[s], engine[s], invoked[s], abandoned[s])
        BY <1>4 DEF lateAnswer, LeftInv
    <2>2. invoked[s] \in [StepId -> [Skills -> Nat]]
        BY DEF Knowing, HeardInv, HistoryOK
    <2>3. /\ left \in [StepId -> Nat] /\ left[i] = abandoned[s][i] - 1
          /\ \A j \in StepId \ {i} : left[j] = abandoned[s][j]
        BY <2>1
    <2> HIDE DEF left
    <2>4. ASSUME NEW j \in StepId
          PROVE  /\ left[j] <= startedFor(invoked[s], j)
                 /\ abandoned[s][j] < startedFor(invoked[s], j)
                        => left[j] < startedFor(invoked[s], j)
        <3>1. startedFor(invoked[s], j) \in Nat /\ abandoned[s][j] \in Nat
              /\ abandoned[s][j] <= startedFor(invoked[s], j)
            BY <2>1, <2>2 DEF startedFor, Skills, Left
        <3>2. left[j] \in Nat /\ left[j] <= abandoned[s][j]
            BY <2>1, <2>3
        <3> QED
            BY <3>1, <3>2
    <2>5. Left(session[s], engine[s], invoked[s], left)
        BY <2>1, <2>4 DEF Left
    <2>6. /\ abandoned'[s] = left /\ abandoned' \in [Session -> [StepId -> Nat]]
          /\ \A t \in Session \ {s} : abandoned'[t] = abandoned[t]
        BY <2>1, <2>3
    <2> QED
        BY <2>1, <2>5, <2>6, OneSessionLeaves
<1>5. ASSUME UNCHANGED <<session, engine, invoked, policy, abandoned, late>> PROVE LeftInv'
    BY <1>5 DEF LeftInv
<1> QED
    BY <1>1, <1>2, <1>3, <1>4, <1>5 DEF Next, engineStep, history, vars

LEMMA InitLeaves == Init => LeftInv
<1> SUFFICES ASSUME Init PROVE LeftInv
    OBVIOUS
<1>1. /\ abandoned \in [Session -> [StepId -> Nat]] /\ policy \in [Session -> Policy]
      /\ late \in [Session -> SUBSET StepId]
      /\ \A s \in Session : /\ engine[s] = Idle
                            /\ \A i \in StepId : abandoned[s][i] = 0
                            /\ \A i \in StepId, skill \in Skills : invoked[s][i][skill] = 0
    BY DEF Init
<1>2. ASSUME NEW s \in Session
      PROVE  Left(session[s], engine[s], invoked[s], abandoned[s])
    <2>1. engine[s].attempt \in 0 .. MaxAttempts /\ engine[s].pc \notin Skills
        BY <1>1, EngineAssumption DEF Idle, Skills
    <2>2. \A i \in StepId : abandoned[s][i] <= startedFor(invoked[s], i)
        BY <1>1 DEF startedFor, Skills
    <2> QED
        BY <2>1, <2>2 DEF Left
<1> QED
    BY <1>1, <1>2 DEF LeftInv

LEMMA AlwaysLeft == Spec => [](Knowing /\ SpentInv /\ LeftInv)
<1>1. Knowing /\ SpentInv /\ [Next]_vars => SpentInv'
    BY StepSpends
<1>2. Knowing /\ SpentInv /\ LeftInv /\ [Next]_vars => LeftInv'
    BY StepLeaves
<1> QED
    BY <1>1, <1>2, InitSpends, InitLeaves, AlwaysHeard, PTL DEF Spec

\* Every reachable state of engine, supervisor and history is well typed.
THEOREM EngineTypeCorrect == Spec => []TypeOK
<1>1. ASSUME Knowing, SpentInv, LeftInv PROVE TypeOK
    <2>1. Supervisor!TypeOK
        <3>1. Supervised!TypeOK
            BY <1>1 DEF Knowing, Supervised!Explains
        <3>2. Supervisor!Orders = Supervised!Orders
            BY SameScheduler DEF Supervisor!Orders, Supervised!Orders
        <3>3. /\ Supervisor!SessionStates = Supervised!SessionStates
              /\ Supervisor!StepStates = Supervised!StepStates
            BY DEF Supervisor!SessionStates, Supervised!SessionStates, Supervisor!StepStates,
                   Supervised!StepStates, Supervisor!FinalSessionStates,
                   Supervised!FinalSessionStates
        <3>4. Supervisor!SessionType = Supervised!SessionType
            BY <3>2, <3>3, Zenon DEF Supervisor!SessionType, Supervised!SessionType
        <3> QED
            BY <3>1, <3>4, Zenon DEF Supervisor!TypeOK, Supervised!TypeOK
    <2>2. engine \in [Session -> [pc : {"idle", "primary", "fallback", "answered"},
                                  attempt : 0 .. MaxAttempts, outcome : EngineOutcome]]
        <3>1. /\ engine \in [Session -> EngineRecord]
              /\ \A s \in Session : engine[s].attempt \in 0 .. MaxAttempts
            BY <1>1 DEF Knowing, EngineInv, LeftInv, Left
        <3> QED
            BY <3>1 DEF EngineRecord
    <2>3. /\ policy \in [Session -> Policy] /\ late \in [Session -> SUBSET StepId]
          /\ abandoned \in [Session -> [StepId -> Nat]]
        BY <1>1 DEF LeftInv
    <2>4. invoked \in [Session -> [StepId -> [Skills -> 0 .. MaxInvocations]]]
        BY <1>1, Bounded DEF StartsAreBounded
    <2>5. said \in [Session -> [StepId -> {"nothing", "final", "success"}]]
        BY <1>1 DEF Knowing, HeardInv, HistoryOK, SaidType
    <2> QED
        BY <2>1, <2>2, <2>3, <2>4, <2>5 DEF TypeOK
<1>2. Knowing /\ SpentInv /\ LeftInv => TypeOK
    BY <1>1
<1> QED
    BY <1>2, AlwaysLeft, PTL

\* A skill that timed out is not stopped, and a step leaves no more of them running
\* than TimeoutExecutor, RetryExecutor and the supervisor started for it: MaxAttempts
\* attempts of the supervisor, with MaxAttempts of each skill in each.
THEOREM TimeoutsLeaveABound == Spec => []LateSkillsAreBounded
<1>1. ASSUME Knowing, SpentInv, LeftInv, NEW s \in Session, NEW i \in StepId
      PROVE  abandoned[s][i] <= 2 * MaxInvocations
    <2> DEFINE p == invoked[s][i]["primary"]
               q == invoked[s][i]["fallback"]
               a == abandoned[s][i]
    <2>1. MaxInvocations \in Nat
        BY EngineAssumption DEF MaxInvocations
    <2>2. p \in 0 .. MaxInvocations /\ q \in 0 .. MaxInvocations
        BY <1>1, Bounded DEF StartsAreBounded, Skills
    <2>3. a \in Nat /\ a <= p + q
        BY <1>1 DEF LeftInv, Left, startedFor
    <2> HIDE DEF p, q, a
    <2>4. a <= 2 * MaxInvocations
        BY <2>1, <2>2, <2>3
    <2> QED
        BY <2>4 DEF a
<1>2. Knowing /\ SpentInv /\ LeftInv => LateSkillsAreBounded
    BY <1>1 DEF LateSkillsAreBounded
<1> QED
    BY <1>2, AlwaysLeft, PTL
=============================================================================
