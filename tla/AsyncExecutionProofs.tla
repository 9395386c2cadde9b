------------------------ MODULE AsyncExecutionProofs ------------------------
(***************************************************************************)
(* Proofs about AsyncExecution, for any executions, cancel requests, keys, *)
(* plans and retry limits: first for stores that suspend or do not, then   *)
(* for the in-memory stores of this build (StoreSuspends = FALSE), where   *)
(* one actor runs at a time.                                               *)
(***************************************************************************)
EXTENDS AsyncExecution, WellFoundedInduction, SequenceTheorems, TLAPS

USE DEF exists, goto

\* One session replaced by a well-typed one.
LEMMA SessionReplaced ==
    ASSUME Supervisor!TypeOK, NEW e \in Execution, NEW new \in Supervisor!SessionType,
           session' = [session EXCEPT ![e] = new], UNCHANGED cancelled
    PROVE  Supervisor!TypeOK'
BY DEF Supervisor!TypeOK

\* The supervisor's own steps keep the type of its sessions.
LEMMA SupervisorTypes ==
    ASSUME Supervisor!TypeOK, NEW e \in Execution,
           \/ \E plan \in Plan : Supervisor!begin(e, plan) \/ Supervisor!beginThrows(e, plan)
           \/ Supervisor!progress(e)
           \/ Supervisor!cancel(e)
    PROVE  Supervisor!TypeOK'
<1>0. session[e] \in Supervisor!SessionType
  BY DEF Supervisor!TypeOK
<1> USE ActorAssumption, <1>0
    DEF Supervisor!SessionStates, Supervisor!StepStates, Supervisor!FinalSessionStates
<1>1. ASSUME NEW plan \in Plan, Supervisor!begin(e, plan) PROVE Supervisor!TypeOK'
  <2> DEFINE new == [session[e] EXCEPT !.state = "RUNNING", !.plan = plan,
                                       !.order = Supervisor!ordered(plan)]
  <2>1. Supervisor!ordered(plan) \in Supervisor!Orders
    BY Zenon DEF Supervisor!Orders
  <2>2. new \in Supervisor!SessionType
    BY <2>1 DEF Supervisor!SessionType
  <2>3. session' = [session EXCEPT ![e] = new] /\ UNCHANGED cancelled
    BY <1>1 DEF Supervisor!begin
  <2>4. QED
    BY <2>2, <2>3, SessionReplaced
<1>2. ASSUME NEW plan \in Plan, Supervisor!beginThrows(e, plan) PROVE Supervisor!TypeOK'
  <2> DEFINE new == [session[e] EXCEPT !.state = "READY", !.plan = plan]
  <2>1. new \in Supervisor!SessionType
    BY DEF Supervisor!SessionType
  <2>2. session' = [session EXCEPT ![e] = new] /\ UNCHANGED cancelled
    BY <1>2 DEF Supervisor!beginThrows
  <2>3. QED
    BY <2>1, <2>2, SessionReplaced
<1>3. ASSUME Supervisor!observeCancel(e) PROVE Supervisor!TypeOK'
  BY <1>3 DEF Supervisor!observeCancel, Supervisor!TypeOK, Supervisor!SessionType
<1>4. ASSUME Supervisor!startStep(e) PROVE Supervisor!TypeOK'
  <2> DEFINE steps == [session[e].steps EXCEPT ![Supervisor!currentStep(e)] = "RUNNING"]
             new == [session[e] EXCEPT !.steps = steps, !.attempts = 1, !.invoking = TRUE]
  <2>1. steps \in [StepId -> Supervisor!StepStates]
    BY DEF Supervisor!SessionType
  <2>5. 1 \in 0 .. MaxAttempts
    BY ActorAssumption
  <2> HIDE DEF steps
  <2>2. new \in Supervisor!SessionType
    BY <2>1, <2>5 DEF Supervisor!SessionType
  <2>3. session' = [session EXCEPT ![e] = new] /\ UNCHANGED cancelled
    BY <1>4 DEF Supervisor!startStep, steps
  <2> HIDE DEF new
  <2>4. QED
    BY <2>2, <2>3, SessionReplaced
<1>5. ASSUME Supervisor!complete(e) PROVE Supervisor!TypeOK'
  BY <1>5 DEF Supervisor!complete, Supervisor!TypeOK, Supervisor!SessionType
<1>6. ASSUME NEW outcome \in Supervisor!Outcome, Supervisor!stepSucceeds(e, outcome)
      PROVE  Supervisor!TypeOK'
  BY <1>6 DEF Supervisor!stepSucceeds, Supervisor!TypeOK, Supervisor!SessionType
<1>7. ASSUME NEW outcome \in Supervisor!Outcome, Supervisor!retryStep(e, outcome)
      PROVE  Supervisor!TypeOK'
  BY <1>7 DEF Supervisor!retryStep, Supervisor!mayRetry, Supervisor!TypeOK,
              Supervisor!SessionType
<1>8. ASSUME NEW outcome \in Supervisor!Outcome, Supervisor!stepFails(e, outcome)
      PROVE  Supervisor!TypeOK'
  BY <1>8 DEF Supervisor!stepFails, Supervisor!TypeOK, Supervisor!SessionType
<1>9. ASSUME Supervisor!cancel(e) PROVE Supervisor!TypeOK'
  BY <1>9 DEF Supervisor!cancel, Supervisor!TypeOK
<1>10. QED
  BY <1>1, <1>2, <1>3, <1>4, <1>5, <1>6, <1>7, <1>8, <1>9, Zenon
     DEF Supervisor!progress, Supervisor!ownStep, Supervisor!invocationAnswers

\* An accepted append keeps the type of the stream, swallowed or not.
LEMMA AppendType ==
    ASSUME NEW log \in Seq(EventKinds), NEW kind \in EventKinds
    PROVE  appended(log, kind) \in Seq(EventKinds) /\ appendedIfOpen(log, kind) \in Seq(EventKinds)
BY DEF appended, appendedIfOpen

LEMMA SupervisorTypeUnchanged ==
    ASSUME Supervisor!TypeOK, UNCHANGED supervisorVars
    PROVE  Supervisor!TypeOK'
BY DEF Supervisor!TypeOK, supervisorVars

\* The store operations of the try block keep the types they touch.
LEMMA UpdateOrThrowTypes ==
    ASSUME TypeOK, NEW e \in Execution, NEW record \in RecordType, NEW next \in TaskPoints,
           updateOrThrow(e, record, next)
    PROVE  /\ records' \in [Execution -> RecordType]
           /\ pc' \in [Execution -> HandlerPoints \cup TaskPoints]
BY DEF TypeOK, updateOrThrow, TaskPoints

LEMMA AppendOrThrowTypes ==
    ASSUME TypeOK, NEW e \in Execution, NEW kind \in EventKinds, NEW next \in TaskPoints,
           appendOrThrow(e, kind, next)
    PROVE  /\ events' \in [Execution -> Seq(EventKinds)]
           /\ pc' \in [Execution -> HandlerPoints \cup TaskPoints]
<1>1. events[e] \in Seq(EventKinds)
  BY DEF TypeOK
<1>2. appended(events[e], kind) \in Seq(EventKinds)
  BY <1>1, AppendType
<1>3. QED
  BY <1>2 DEF TypeOK, appendOrThrow, TaskPoints

LEMMA AppendOrSwallowTypes ==
    ASSUME TypeOK, NEW e \in Execution, NEW kind \in EventKinds, appendOrSwallow(e, kind)
    PROVE  events' \in [Execution -> Seq(EventKinds)]
<1>1. appendedIfOpen(events[e], kind) \in Seq(EventKinds)
  BY AppendType DEF TypeOK
<1>2. QED
  BY <1>1 DEF TypeOK, appendOrSwallow

\* The control point "lookup" is reached with a key only.
LookupHasKey == \A e \in Execution : pc[e] = "lookup" => request[e].key \in Key

\* A cancel request that was made has found its execution.
CancelHasTarget ==
    \A c \in CancelRequest : cancels[c].pc # "idle" => cancels[c].target \in Execution

TypeInv == TypeOK /\ LookupHasKey /\ CancelHasTarget

\* Every step of an execution's handler keeps the types.
LEMMA HandlerTypes ==
    ASSUME TypeInv, NEW e \in Execution, handler(e), loop' \in Actor \cup {NoActor}
    PROVE  TypeInv'
<1> USE SupervisorTypeUnchanged
    DEF TypeInv, TypeOK, LookupHasKey, CancelHasTarget, HandlerPoints, TaskPoints, pipelineVars
<1>1. CASE refuseSubmission(e)
  BY <1>1 DEF refuseSubmission
<1>2. ASSUME NEW body \in Request, submit(e, body) PROVE TypeInv'
  BY <1>2 DEF submit, Request
<1>3. CASE findByIdempotencyKey(e)
  BY <1>3 DEF findByIdempotencyKey
<1>4. CASE save(e)
  BY <1>4 DEF save, newRecord, NoRecord, RecordType, PublicStates, TerminalStates
<1>5. CASE accept(e)
  <2>1. "EXECUTION_ACCEPTED" \in EventKinds /\ "admit" \in TaskPoints
    BY DEF EventKinds
  <2>2. QED
    BY <1>5, <2>1, AppendOrThrowTypes DEF accept, appendOrThrow
<1>6. QED
  BY <1>1, <1>2, <1>3, <1>4, <1>5 DEF handler

\* A step of the background task that writes its record and nothing else.
LEMMA RecordStepTypes ==
    ASSUME TypeInv, NEW e \in Execution, NEW record \in RecordType, NEW next \in TaskPoints,
           records' = [records EXCEPT ![e] = record], goto(e, next),
           UNCHANGED <<pipelineVars, events, supervisorVars, cancels>>,
           loop' \in Actor \cup {NoActor}
    PROVE  TypeInv'
BY SupervisorTypeUnchanged
   DEF TypeInv, TypeOK, LookupHasKey, CancelHasTarget, HandlerPoints, TaskPoints, pipelineVars

\* Every step of an execution's background task keeps the types.
LEMMA TaskTypes ==
    ASSUME TypeInv, NEW e \in Execution, task(e), loop' \in Actor \cup {NoActor}
    PROVE  TypeInv'
<1>1. /\ "announceAdmitted" \in TaskPoints /\ "planning" \in TaskPoints
      /\ "announceCancelled" \in TaskPoints /\ "announceStarted" \in TaskPoints
      /\ "execute" \in TaskPoints /\ "seedEvidence" \in TaskPoints
  BY DEF TaskPoints
<1>2. /\ "EXECUTION_ADMITTED" \in EventKinds /\ "EXECUTION_STARTED" \in EventKinds
      /\ "EXECUTION_CANCELLED" \in EventKinds /\ "EXECUTION_FAILED" \in EventKinds
      /\ \A state : TerminalKindOf(state) \in EventKinds
  BY DEF EventKinds, TerminalKinds, TerminalKindOf
<1>3. records[e] \in RecordType
  BY DEF TypeInv, TypeOK
<1> USE SupervisorTypeUnchanged
    DEF TypeInv, TypeOK, LookupHasKey, CancelHasTarget, HandlerPoints, TaskPoints, pipelineVars
<1>4. CASE admit(e)
  <2>1. [records[e] EXCEPT !.state = "ADMITTED"] \in RecordType
    BY <1>3 DEF RecordType, PublicStates
  <2>2. QED
    BY <1>1, <1>4, <2>1, UpdateOrThrowTypes DEF admit, updateOrThrow
<1>5. CASE announceAdmitted(e)
  BY <1>1, <1>2, <1>5, AppendOrThrowTypes DEF announceAdmitted, appendOrThrow
<1>6. CASE planAnswers(e)
  BY <1>6 DEF planAnswers
<1>7. CASE bindSession(e)
  <2> DEFINE record == [records[e] EXCEPT !.sessionKnown = TRUE]
  <2>1. record \in RecordType
    BY <1>3 DEF RecordType
  <2>2. records' = [records EXCEPT ![e] = record]
    BY <1>7 DEF bindSession
  <2> HIDE DEF record, TypeInv
  <2>3. /\ goto(e, "checkCancelled") /\ "checkCancelled" \in TaskPoints
        /\ UNCHANGED <<pipelineVars, events, supervisorVars, cancels>>
    BY <1>7 DEF bindSession
  <2>4. QED
    BY <2>1, <2>2, <2>3, RecordStepTypes
<1>8. CASE checkCancelled(e)
  BY <1>8 DEF checkCancelled
<1>9. CASE commitCancelled(e)
  <2>1. [records[e] EXCEPT !.state = "CANCELLED", !.result = "null"] \in RecordType
    BY <1>3 DEF RecordType, PublicStates, TerminalStates
  <2>2. QED
    BY <1>1, <1>9, <2>1, UpdateOrThrowTypes DEF commitCancelled, updateOrThrow
<1>10. CASE announceCancelled(e)
  BY <1>2, <1>10, AppendOrSwallowTypes DEF announceCancelled
<1>11. CASE start(e)
  <2>1. [records[e] EXCEPT !.state = "RUNNING"] \in RecordType
    BY <1>3 DEF RecordType, PublicStates
  <2>2. QED
    BY <1>1, <1>11, <2>1, UpdateOrThrowTypes DEF start, updateOrThrow
<1>12. CASE announceStarted(e)
  BY <1>1, <1>2, <1>12, AppendOrThrowTypes DEF announceStarted, appendOrThrow
<1>13. CASE execute(e)
  <2>1. Supervisor!TypeOK'
    BY <1>13, SupervisorTypes DEF execute
  <2>2. QED
    BY <1>13, <2>1 DEF execute
<1>14. CASE supervise(e)
  <2>1. Supervisor!TypeOK'
    BY <1>14, SupervisorTypes DEF supervise
  <2>2. QED
    BY <1>14, <2>1 DEF supervise
<1>15. CASE executeReturns(e)
  <2>1. toPublicState(session[e].state) \in TerminalStates
    BY <1>15 DEF executeReturns, Supervisor!finished, Supervisor!FinalSessionStates,
                 toPublicState, TerminalStates
  <2>2. QED
    BY <1>15, <2>1 DEF executeReturns, ValidationOutcomes
<1>16. CASE validate(e)
  <2>1. PICK outcome \in {"VALID", "INVALID", "NOT_EVALUATED"} :
            verdict' = [verdict EXCEPT ![e] =
                [state      |-> IF outcome = "INVALID" THEN "FAILED" ELSE verdict[e].state,
                 validation |-> outcome]]
    BY <1>16 DEF validate
  <2>2. verdict' \in [Execution -> [state : TerminalStates \cup {"NONE"},
                                    validation : ValidationOutcomes \cup {"NONE"}]]
    <3>1. /\ outcome \in ValidationOutcomes
          /\ "FAILED" \in TerminalStates
      BY DEF ValidationOutcomes, TerminalStates
    <3>2. QED
      BY <2>1, <3>1
  <2>3. /\ goto(e, "commit")
        /\ UNCHANGED <<request, byIdemKey, answer, records, events, supervisorVars, cancels>>
    BY <1>16 DEF validate
  <2>4. QED
    BY <2>2, <2>3
<1>17. CASE commit(e)
  <2> DEFINE record == [records[e] EXCEPT
                 !.state = verdict[e].state,
                 !.result = IF verdict[e].validation = "INVALID" THEN "null" ELSE "output",
                 !.validation = verdict[e].validation]
  <2>1. record \in RecordType
    BY <1>3 DEF RecordType, PublicStates
  <2>2. QED
    BY <1>1, <1>17, <2>1, UpdateOrThrowTypes DEF commit, updateOrThrow
<1>18. CASE seedEvidence(e)
  <2> DEFINE record == [records[e] EXCEPT !.evidence = @ \cup {"steps"}]
  <2>1. record \in RecordType
    BY <1>3 DEF RecordType
  <2>2. records' = [records EXCEPT ![e] = record]
    BY <1>18 DEF seedEvidence
  <2> HIDE DEF record, TypeInv
  <2>3. PICK next \in {"announceOutcome", "validationEvidence"} : goto(e, next)
    BY <1>18 DEF seedEvidence
  <2>4. UNCHANGED <<pipelineVars, events, supervisorVars, cancels>>
    BY <1>18 DEF seedEvidence
  <2>5. QED
    BY <2>1, <2>2, <2>3, <2>4, RecordStepTypes
<1>19. CASE validationEvidence(e)
  <2> DEFINE record == [records[e] EXCEPT !.evidence = @ \cup {"validation"}]
  <2>1. record \in RecordType
    BY <1>3 DEF RecordType
  <2>2. records' = [records EXCEPT ![e] = record]
    BY <1>19 DEF validationEvidence
  <2> HIDE DEF record, TypeInv
  <2>3. /\ goto(e, "announceOutcome") /\ "announceOutcome" \in TaskPoints
        /\ UNCHANGED <<pipelineVars, events, supervisorVars, cancels>>
    BY <1>19 DEF validationEvidence
  <2>4. QED
    BY <2>1, <2>2, <2>3, RecordStepTypes
<1>20. CASE announceOutcome(e)
  BY <1>2, <1>20, AppendOrSwallowTypes DEF announceOutcome
<1>21. CASE failRecord(e)
  <2> DEFINE record == IF frozen(e) THEN records[e]
                       ELSE [records[e] EXCEPT !.state = "FAILED", !.result = "null"]
  <2>1. record \in RecordType
    BY <1>3 DEF RecordType, PublicStates, TerminalStates
  <2>2. records' = [records EXCEPT ![e] = record]
    BY <1>21 DEF failRecord
  <2> HIDE DEF record, TypeInv
  <2>3. /\ goto(e, "announceFailure") /\ "announceFailure" \in TaskPoints
        /\ UNCHANGED <<pipelineVars, events, supervisorVars, cancels>>
    BY <1>21 DEF failRecord
  <2>4. QED
    BY <2>1, <2>2, <2>3, RecordStepTypes
<1>22. CASE announceFailure(e)
  BY <1>2, <1>22, AppendOrSwallowTypes DEF announceFailure
<1>23. QED
  BY <1>4, <1>5, <1>6, <1>7, <1>8, <1>9, <1>10, <1>11, <1>12, <1>13, <1>14, <1>15,
     <1>16, <1>17, <1>18, <1>19, <1>20, <1>21, <1>22, Zenon DEF task

\* Every step of a cancel request keeps the types.
LEMMA CancelTypes ==
    ASSUME TypeInv, NEW c \in CancelRequest, loop' \in Actor \cup {NoActor},
           cancelStep(c) \/ \E e \in Execution : requestCancel(c, e)
    PROVE  TypeInv'
<1> DEFINE e == cancels[c].target
<1>1. cancels[c].pc # "idle" => e \in Execution
  BY DEF TypeInv, CancelHasTarget
<1> HIDE DEF e
<1> USE SupervisorTypeUnchanged
    DEF TypeInv, TypeOK, LookupHasKey, CancelHasTarget, CancelPoints, pipelineVars
<1>2. ASSUME NEW f \in Execution, requestCancel(c, f) PROVE TypeInv'
  BY <1>2 DEF requestCancel, RecordType
<1>3. CASE commitCancelling(c)
  <2>1. PICK record \in RecordType : records' = [records EXCEPT ![e] = record]
    <3>1. [records[e] EXCEPT !.state = "CANCELLING"] \in RecordType
      <4>1. records[e] \in RecordType
        BY <1>1, <1>3 DEF commitCancelling
      <4>2. QED
        BY <4>1 DEF RecordType, PublicStates
    <3>2. CASE frozen(e)
      BY <1>1, <1>3, <3>2 DEF commitCancelling, e
    <3>3. CASE ~ frozen(e)
      BY <1>3, <3>1, <3>3 DEF commitCancelling, e
    <3>4. QED
      BY <3>2, <3>3
  <2>2. records' \in [Execution -> RecordType]
    BY <2>1
  <2>3. PICK point \in CancelPoints \ {"idle"} : cancels' = [cancels EXCEPT ![c].pc = point]
    BY <1>3 DEF commitCancelling
  <2>4. cancels[c].pc = "commit" /\ UNCHANGED <<pipelineVars, pc, events, supervisorVars>>
    BY <1>3 DEF commitCancelling
  <2>5. QED
    BY <1>1, <2>2, <2>3, <2>4 DEF e
<1>4. CASE announceCancellation(c)
  <2>1. "CANCELLATION_REQUESTED" \in EventKinds
    BY DEF EventKinds
  <2>2. events' \in [Execution -> Seq(EventKinds)]
    BY <1>1, <1>4, <2>1, AppendOrSwallowTypes DEF announceCancellation, e
  <2>3. PICK point \in CancelPoints \ {"idle"} : cancels' = [cancels EXCEPT ![c].pc = point]
    BY <1>4 DEF announceCancellation
  <2>4. cancels[c].pc = "announce" /\ UNCHANGED <<pipelineVars, pc, records, supervisorVars>>
    BY <1>4 DEF announceCancellation
  <2>5. QED
    BY <1>1, <2>2, <2>3, <2>4 DEF e
<1>5. CASE signalSupervisor(c)
  <2>1. Supervisor!TypeOK'
    BY <1>1, <1>5, SupervisorTypes DEF signalSupervisor, e
  <2>2. QED
    BY <1>1, <1>5, <2>1 DEF signalSupervisor, e
<1>6. QED
  BY <1>2, <1>3, <1>4, <1>5 DEF cancelStep

LEMMA LoopTypes ==
    ASSUME NEW a \in Actor, yields(a) PROVE loop' \in Actor \cup {NoActor}
BY DEF yields

LEMMA StutterTypes == ASSUME TypeInv, UNCHANGED vars PROVE TypeInv'
BY SupervisorTypeUnchanged
   DEF TypeInv, TypeOK, LookupHasKey, CancelHasTarget, vars, supervisorVars

LEMMA InitTypes == Init => TypeInv
<1>1. Supervisor!Init => Supervisor!TypeOK
  BY ActorAssumption
     DEF Supervisor!Init, Supervisor!TypeOK, Supervisor!NoSession, Supervisor!SessionType,
         Supervisor!SessionStates, Supervisor!StepStates, Supervisor!Orders
<1>2. QED
  BY <1>1 DEF Init, TypeInv, TypeOK, LookupHasKey, CancelHasTarget, HandlerPoints, NoRecord,
              RecordType, NoCancel, CancelPoints

LEMMA NextTypes == TypeInv /\ [Next]_vars => TypeInv'
<1> SUFFICES ASSUME TypeInv, [Next]_vars PROVE TypeInv'
  OBVIOUS
<1>1. ASSUME NEW e \in Execution, executionStep(e) PROVE TypeInv'
  BY <1>1, LoopTypes, HandlerTypes, TaskTypes DEF executionStep, Actor
<1>2. ASSUME NEW c \in CancelRequest, cancelRequestStep(c) PROVE TypeInv'
  BY <1>2, LoopTypes, CancelTypes DEF cancelRequestStep, Actor
<1>3. CASE quiesce \/ UNCHANGED vars
  BY <1>3, StutterTypes DEF quiesce
<1>4. QED
  BY <1>1, <1>2, <1>3 DEF Next

LEMMA Types == Spec => []TypeInv
BY InitTypes, NextTypes, PTL DEF Spec

\* Every variable of the pipeline keeps its type, for any number of
\* executions and cancel requests and for both kinds of stores.
THEOREM TypeCorrect == Spec => []TypeOK
<1>1. TypeInv => TypeOK
  BY DEF TypeInv
<1>2. QED
  BY Types, <1>1, PTL

-----------------------------------------------------------------------------
(* The record and the stream agree.                                         *)

\* Before the record is saved.
UnsavedPoints == {"idle", "lookup", "save", "refused", "conflict", "replayed"}

\* Between the save and the terminal update.
OpenPoints ==
    {"accept", "admit", "announceAdmitted", "planning", "bindSession", "checkCancelled",
     "commitCancelled", "start", "announceStarted", "execute", "executing", "validate",
     "commit", "failRecord"}

\* Between the terminal update and the terminal event.
SettledPoints ==
    {"announceCancelled", "seedEvidence", "validationEvidence", "announceOutcome",
     "announceFailure"}

\* The outcome a settled task is about to announce.
pendingOutcome(e) ==
    CASE pc[e] = "announceCancelled" -> "CANCELLED"
      [] pc[e] = "announceFailure"   -> "FAILED"
      [] OTHER                       -> verdict[e].state

TerminalEventAgrees(e) ==
    \A i \in DOMAIN events[e] : events[e][i] \in TerminalKinds =>
        /\ i = Len(events[e])
        /\ frozen(e)
        /\ events[e][i] = TerminalKindOf(records[e].state)

\* Where the task stands determines how far record and stream have come.
TaskInv(e) ==
    /\ pc[e] \in UnsavedPoints => ~ exists(e)
    /\ pc[e] \in UnsavedPoints \cup OpenPoints => ~ frozen(e)
    /\ pc[e] \in {"validate", "commit"} => verdict[e].state \in TerminalStates
    /\ pc[e] \in SettledPoints => frozen(e) /\ records[e].state = pendingOutcome(e)
    /\ pc[e] \in UnsavedPoints \cup OpenPoints \cup SettledPoints => ~ terminated(events[e])
    /\ pc[e] = "done" => frozen(e) /\ terminated(events[e])
    /\ TerminalEventAgrees(e)

\* A cancel request only ever touches an execution whose record is saved.
CancelInv(c) == cancels[c].pc # "idle" => pc[cancels[c].target] \notin UnsavedPoints

Inductive ==
    /\ TypeInv
    /\ \A e \in Execution : TaskInv(e)
    /\ \A c \in CancelRequest : CancelInv(c)

LEMMA TerminatedAppend ==
    ASSUME NEW log \in Seq(EventKinds), NEW kind \in EventKinds
    PROVE  /\ terminated(appended(log, kind)) <=> terminated(log) \/ kind \in TerminalKinds
           /\ terminated(appendedIfOpen(log, kind)) <=> terminated(log) \/ kind \in TerminalKinds
<1>1. ASSUME NEW log2 \in Seq(EventKinds), log2 = Append(log, kind)
      PROVE  terminated(log2) <=> terminated(log) \/ kind \in TerminalKinds
  <2>1. /\ DOMAIN log2 = DOMAIN log \cup {Len(log) + 1}
        /\ \A i \in DOMAIN log : log2[i] = log[i]
        /\ log2[Len(log) + 1] = kind
    BY <1>1
  <2>2. QED
    BY <2>1 DEF terminated
<1>2. Append(log, kind) \in Seq(EventKinds)
  OBVIOUS
<1>3. QED
  BY <1>1, <1>2 DEF appended, appendedIfOpen

LEMMA KindOfState ==
    ASSUME NEW state \in TerminalStates
    PROVE  TerminalKindOf(state) \in TerminalKinds
BY DEF TerminalStates, TerminalKinds, TerminalKindOf

\* An append to an open stream keeps the agreement, if a terminal event names
\* the state of a terminal record.
LEMMA AgreementAfterAppend ==
    ASSUME NEW e \in Execution, NEW kind \in EventKinds,
           events[e] \in Seq(EventKinds), ~ terminated(events[e]),
           events'[e] = appended(events[e], kind),
           kind \in TerminalKinds => frozen(e)' /\ kind = TerminalKindOf(records'[e].state)
    PROVE  TerminalEventAgrees(e)'
<1>1. \A i \in DOMAIN events'[e] :
          \/ i \in DOMAIN events[e] /\ events'[e][i] = events[e][i]
          \/ i = Len(events'[e]) /\ events'[e][i] = kind
  BY DEF appended
<1>2. \A i \in DOMAIN events[e] : events[e][i] \notin TerminalKinds
  BY DEF terminated
<1>3. QED
  BY <1>1, <1>2 DEF TerminalEventAgrees

\* A record that is not written leaves the agreement of its stream alone, and
\* so does a write while the stream is open.
LEMMA AgreementKept ==
    ASSUME NEW e \in Execution, TerminalEventAgrees(e), events'[e] = events[e],
           records'[e].state = records[e].state \/ ~ terminated(events[e])
    PROVE  TerminalEventAgrees(e)'
<1>1. CASE records'[e].state = records[e].state
  BY <1>1 DEF TerminalEventAgrees, frozen
<1>2. CASE ~ terminated(events[e])
  BY <1>2 DEF TerminalEventAgrees, terminated
<1>3. QED
  BY <1>1, <1>2

\* The handler's steps keep the invariant of their own execution.
LEMMA HandlerKeepsTaskInv ==
    ASSUME TypeInv, NEW e \in Execution, TaskInv(e), handler(e)
    PROVE  TaskInv(e)'
<1>0. /\ TerminalEventAgrees(e) /\ events[e] \in Seq(EventKinds)
      /\ pc \in [Execution -> HandlerPoints \cup TaskPoints]
      /\ records \in [Execution -> RecordType]
  BY DEF TaskInv, TypeInv, TypeOK
<1> USE DEF TaskInv, UnsavedPoints, OpenPoints, SettledPoints, frozen, pipelineVars, TerminalStates
<1>1. CASE refuseSubmission(e)
  BY <1>0, <1>1, AgreementKept DEF refuseSubmission
<1>2. ASSUME NEW body \in Request, submit(e, body) PROVE TaskInv(e)'
  BY <1>0, <1>2, AgreementKept DEF submit
<1>3. CASE findByIdempotencyKey(e)
  BY <1>0, <1>3, AgreementKept DEF findByIdempotencyKey
<1>4. CASE save(e)
  BY <1>0, <1>4, AgreementKept DEF save, newRecord, NoRecord
<1>5. CASE accept(e)
  <2>1. /\ "EXECUTION_ACCEPTED" \in EventKinds
        /\ "EXECUTION_ACCEPTED" \notin TerminalKinds
    BY DEF EventKinds, TerminalKinds
  <2>2. events'[e] = appended(events[e], "EXECUTION_ACCEPTED") /\ pc'[e] = "admit"
    BY <1>0, <1>5 DEF accept, appendOrThrow, TypeInv, TypeOK
  <2>3. ~ terminated(events[e]) /\ ~ terminated(events'[e])
    BY <1>0, <1>5, <2>1, <2>2, TerminatedAppend DEF accept
  <2>4. TerminalEventAgrees(e)'
    BY <1>0, <2>1, <2>2, <2>3, AgreementAfterAppend
  <2>5. QED
    BY <1>0, <1>5, <2>2, <2>3, <2>4 DEF accept
<1>6. QED
  BY <1>1, <1>2, <1>3, <1>4, <1>5 DEF handler

\* An update of the try block is accepted by a record that is not terminal.
LEMMA UpdateAccepted ==
    ASSUME TypeInv, NEW e \in Execution, ~ frozen(e), NEW record, NEW next,
           updateOrThrow(e, record, next)
    PROVE  records'[e] = record /\ pc'[e] = next
<1>1. records' = [records EXCEPT ![e] = record] /\ pc' = [pc EXCEPT ![e] = next]
  BY DEF updateOrThrow
<1>2. QED
  BY <1>1 DEF TypeInv, TypeOK

\* The background task's steps keep the invariant of their own execution.
LEMMA TaskKeepsTaskInv ==
    ASSUME TypeInv, NEW e \in Execution, TaskInv(e), task(e)
    PROVE  TaskInv(e)'
<1>1. /\ TerminalEventAgrees(e) /\ events[e] \in Seq(EventKinds)
      /\ pc \in [Execution -> HandlerPoints \cup TaskPoints]
      /\ records \in [Execution -> RecordType]
      /\ records[e] \in RecordType
      /\ verdict \in [Execution -> [state : TerminalStates \cup {"NONE"},
                                    validation : ValidationOutcomes \cup {"NONE"}]]
      /\ events \in [Execution -> Seq(EventKinds)]
  BY DEF TaskInv, TypeInv, TypeOK
<1>2. \A kind \in {"EXECUTION_ADMITTED", "EXECUTION_STARTED"} :
          kind \in EventKinds /\ kind \notin TerminalKinds
  BY DEF EventKinds, TerminalKinds
<1>3. \A state \in TerminalStates :
          TerminalKindOf(state) \in EventKinds /\ TerminalKindOf(state) \in TerminalKinds
  BY DEF EventKinds, TerminalKinds, TerminalStates, TerminalKindOf
<1> USE DEF TaskInv, UnsavedPoints, OpenPoints, SettledPoints, pendingOutcome, frozen,
            pipelineVars
<1>4. CASE admit(e)
  <2>1. events'[e] = events[e] /\ ~ terminated(events[e])
    BY <1>4 DEF admit
  <2>2. TerminalEventAgrees(e)'
    BY <1>1, <2>1, AgreementKept
  <2> DEFINE record == [records[e] EXCEPT !.state = "ADMITTED"]
  <2>3. pc[e] = "admit" /\ verdict' = verdict /\ updateOrThrow(e, record, "announceAdmitted")
    BY <1>4 DEF admit
  <2>4. ~ frozen(e)
    BY <2>3
  <2>5. record.state = "ADMITTED"
    BY <1>1 DEF RecordType
  <2> HIDE DEF record, frozen
  <2>6. records'[e].state = "ADMITTED" /\ pc'[e] = "announceAdmitted"
    BY <2>3, <2>4, <2>5, UpdateAccepted
  <2>7. QED
    BY <2>1, <2>2, <2>3, <2>6 DEF frozen, TerminalStates
<1>5. CASE announceAdmitted(e)
  <2>1. events'[e] = appended(events[e], "EXECUTION_ADMITTED") /\ pc'[e] = "planning"
    BY <1>1, <1>5 DEF announceAdmitted, appendOrThrow
  <2>2. ~ terminated(events[e]) /\ ~ terminated(events'[e])
    BY <1>1, <1>2, <1>5, <2>1, TerminatedAppend DEF announceAdmitted
  <2>3. TerminalEventAgrees(e)'
    BY <1>1, <1>2, <2>1, <2>2, AgreementAfterAppend
  <2>4. QED
    BY <1>1, <1>5, <2>1, <2>2, <2>3 DEF announceAdmitted
<1>6. CASE planAnswers(e)
  <2>1. events'[e] = events[e] /\ ~ terminated(events[e])
    BY <1>6 DEF planAnswers
  <2>2. TerminalEventAgrees(e)'
    BY <1>1, <2>1, AgreementKept
  <2>3. QED
    BY <1>1, <1>6, <2>1, <2>2 DEF planAnswers, TerminalStates
<1>7. CASE bindSession(e)
  <2>1. events'[e] = events[e] /\ ~ terminated(events[e])
    BY <1>7 DEF bindSession
  <2>2. TerminalEventAgrees(e)'
    BY <1>1, <2>1, AgreementKept
  <2>3. QED
    BY <1>1, <1>7, <2>1, <2>2 DEF bindSession, TerminalStates
<1>8. CASE checkCancelled(e)
  <2>1. events'[e] = events[e] /\ ~ terminated(events[e])
    BY <1>8 DEF checkCancelled
  <2>2. TerminalEventAgrees(e)'
    BY <1>1, <2>1, AgreementKept
  <2>3. QED
    BY <1>1, <1>8, <2>1, <2>2 DEF checkCancelled, TerminalStates
<1>9. CASE commitCancelled(e)
  <2>1. events'[e] = events[e] /\ ~ terminated(events[e])
    BY <1>9 DEF commitCancelled
  <2>2. TerminalEventAgrees(e)'
    BY <1>1, <2>1, AgreementKept
  <2> DEFINE record == [records[e] EXCEPT !.state = "CANCELLED", !.result = "null"]
  <2>3. pc[e] = "commitCancelled" /\ verdict' = verdict /\ updateOrThrow(e, record, "announceCancelled")
    BY <1>9 DEF commitCancelled
  <2>4. ~ frozen(e)
    BY <2>3
  <2>5. record.state = "CANCELLED"
    BY <1>1 DEF RecordType
  <2> HIDE DEF record, frozen
  <2>6. records'[e].state = "CANCELLED" /\ pc'[e] = "announceCancelled"
    BY <2>3, <2>4, <2>5, UpdateAccepted
  <2>7. QED
    BY <2>1, <2>2, <2>3, <2>6 DEF frozen, TerminalStates
<1>10. CASE announceCancelled(e)
  <2> DEFINE kind == TerminalKindOf("CANCELLED")
  <2>1. "CANCELLED" = records[e].state /\ records[e].state \in TerminalStates
    BY <1>10 DEF announceCancelled
  <2>2. ~ terminated(events[e]) /\ pc'[e] = "done" /\ records' = records
    BY <1>1, <1>10 DEF announceCancelled
  <2>3. events'[e] = appended(events[e], kind)
    BY <1>1, <1>10, <2>2 DEF announceCancelled, appendOrSwallow, appendedIfOpen, TerminalKindOf
  <2> HIDE DEF kind
  <2>4. kind \in EventKinds /\ kind \in TerminalKinds /\ kind = TerminalKindOf(records[e].state)
    BY <1>3, <2>1 DEF kind
  <2>5. terminated(events'[e])
    BY <1>1, <2>3, <2>4, TerminatedAppend
  <2>6. TerminalEventAgrees(e)'
    BY <1>1, <2>1, <2>2, <2>3, <2>4, AgreementAfterAppend
  <2>7. QED
    BY <2>1, <2>2, <2>5, <2>6
<1>11. CASE start(e)
  <2>1. events'[e] = events[e] /\ ~ terminated(events[e])
    BY <1>11 DEF start
  <2>2. TerminalEventAgrees(e)'
    BY <1>1, <2>1, AgreementKept
  <2> DEFINE record == [records[e] EXCEPT !.state = "RUNNING"]
  <2>3. pc[e] = "start" /\ verdict' = verdict /\ updateOrThrow(e, record, "announceStarted")
    BY <1>11 DEF start
  <2>4. ~ frozen(e)
    BY <2>3
  <2>5. record.state = "RUNNING"
    BY <1>1 DEF RecordType
  <2> HIDE DEF record, frozen
  <2>6. records'[e].state = "RUNNING" /\ pc'[e] = "announceStarted"
    BY <2>3, <2>4, <2>5, UpdateAccepted
  <2>7. QED
    BY <2>1, <2>2, <2>3, <2>6 DEF frozen, TerminalStates
<1>12. CASE announceStarted(e)
  <2>1. events'[e] = appended(events[e], "EXECUTION_STARTED") /\ pc'[e] = "execute"
    BY <1>1, <1>12 DEF announceStarted, appendOrThrow
  <2>2. ~ terminated(events[e]) /\ ~ terminated(events'[e])
    BY <1>1, <1>2, <1>12, <2>1, TerminatedAppend DEF announceStarted
  <2>3. TerminalEventAgrees(e)'
    BY <1>1, <1>2, <2>1, <2>2, AgreementAfterAppend
  <2>4. QED
    BY <1>1, <1>12, <2>1, <2>2, <2>3 DEF announceStarted
<1>13. CASE execute(e)
  <2>1. events'[e] = events[e] /\ ~ terminated(events[e])
    BY <1>13 DEF execute
  <2>2. TerminalEventAgrees(e)'
    BY <1>1, <2>1, AgreementKept
  <2>3. QED
    BY <1>1, <1>13, <2>1, <2>2 DEF execute, TerminalStates
<1>14. CASE supervise(e)
  <2>1. events'[e] = events[e] /\ ~ terminated(events[e])
    BY <1>14 DEF supervise
  <2>2. TerminalEventAgrees(e)'
    BY <1>1, <2>1, AgreementKept
  <2>3. QED
    BY <1>1, <1>14, <2>1, <2>2 DEF supervise, TerminalStates
<1>15. CASE executeReturns(e)
  <2>1. events'[e] = events[e] /\ ~ terminated(events[e])
    BY <1>15 DEF executeReturns
  <2>2. TerminalEventAgrees(e)'
    BY <1>1, <2>1, AgreementKept
  <2>3. QED
    BY <1>1, <1>15, <2>1, <2>2 DEF executeReturns, TerminalStates,
                               toPublicState, Supervisor!finished, Supervisor!FinalSessionStates
<1>16. CASE validate(e)
  <2>1. events'[e] = events[e] /\ ~ terminated(events[e])
    BY <1>16 DEF validate
  <2>2. TerminalEventAgrees(e)'
    BY <1>1, <2>1, AgreementKept
  <2>3. QED
    BY <1>1, <1>16, <2>1, <2>2 DEF validate, TerminalStates
<1>17. CASE commit(e)
  <2>1. events'[e] = events[e] /\ ~ terminated(events[e])
    BY <1>17 DEF commit
  <2>2. TerminalEventAgrees(e)'
    BY <1>1, <2>1, AgreementKept
  <2> DEFINE record == [records[e] EXCEPT
                 !.state = verdict[e].state,
                 !.result = IF verdict[e].validation = "INVALID" THEN "null" ELSE "output",
                 !.validation = verdict[e].validation]
  <2>3. pc[e] = "commit" /\ verdict' = verdict /\ updateOrThrow(e, record, "seedEvidence")
    BY <1>17 DEF commit
  <2>4. ~ frozen(e)
    BY <2>3
  <2>5. record.state = verdict[e].state
    BY <1>1 DEF RecordType
  <2> HIDE DEF record, frozen
  <2>6. records'[e].state = verdict[e].state /\ pc'[e] = "seedEvidence"
    BY <2>3, <2>4, <2>5, UpdateAccepted
  <2>7. QED
    BY <2>1, <2>2, <2>3, <2>6 DEF frozen, TerminalStates
<1>18. CASE seedEvidence(e)
  <2>1. events'[e] = events[e] /\ ~ terminated(events[e])
    BY <1>18 DEF seedEvidence
  <2>2. TerminalEventAgrees(e)'
    BY <1>1, <2>1, AgreementKept
  <2>3. QED
    BY <1>1, <1>18, <2>1, <2>2 DEF seedEvidence, TerminalStates
<1>19. CASE validationEvidence(e)
  <2>1. events'[e] = events[e] /\ ~ terminated(events[e])
    BY <1>19 DEF validationEvidence
  <2>2. TerminalEventAgrees(e)'
    BY <1>1, <2>1, AgreementKept
  <2>3. QED
    BY <1>1, <1>19, <2>1, <2>2 DEF validationEvidence, TerminalStates
<1>20. CASE announceOutcome(e)
  <2> DEFINE kind == TerminalKindOf(verdict[e].state)
  <2>1. verdict[e].state = records[e].state /\ records[e].state \in TerminalStates
    BY <1>20 DEF announceOutcome
  <2>2. ~ terminated(events[e]) /\ pc'[e] = "done" /\ records' = records
    BY <1>1, <1>20 DEF announceOutcome
  <2>3. events'[e] = appended(events[e], kind)
    BY <1>1, <1>20, <2>2 DEF announceOutcome, appendOrSwallow, appendedIfOpen, TerminalKindOf
  <2> HIDE DEF kind
  <2>4. kind \in EventKinds /\ kind \in TerminalKinds /\ kind = TerminalKindOf(records[e].state)
    BY <1>3, <2>1 DEF kind
  <2>5. terminated(events'[e])
    BY <1>1, <2>3, <2>4, TerminatedAppend
  <2>6. TerminalEventAgrees(e)'
    BY <1>1, <2>1, <2>2, <2>3, <2>4, AgreementAfterAppend
  <2>7. QED
    BY <2>1, <2>2, <2>5, <2>6
<1>21. CASE failRecord(e)
  <2>1. events'[e] = events[e] /\ ~ terminated(events[e])
    BY <1>21 DEF failRecord
  <2>2. TerminalEventAgrees(e)'
    BY <1>1, <2>1, AgreementKept
  <2>3. QED
    BY <1>1, <1>21, <2>1, <2>2 DEF failRecord, TerminalStates
<1>22. CASE announceFailure(e)
  <2> DEFINE kind == TerminalKindOf("FAILED")
  <2>1. "FAILED" = records[e].state /\ records[e].state \in TerminalStates
    BY <1>22 DEF announceFailure
  <2>2. ~ terminated(events[e]) /\ pc'[e] = "done" /\ records' = records
    BY <1>1, <1>22 DEF announceFailure
  <2>3. events'[e] = appended(events[e], kind)
    BY <1>1, <1>22, <2>2 DEF announceFailure, appendOrSwallow, appendedIfOpen, TerminalKindOf
  <2> HIDE DEF kind
  <2>4. kind \in EventKinds /\ kind \in TerminalKinds /\ kind = TerminalKindOf(records[e].state)
    BY <1>3, <2>1 DEF kind
  <2>5. terminated(events'[e])
    BY <1>1, <2>3, <2>4, TerminatedAppend
  <2>6. TerminalEventAgrees(e)'
    BY <1>1, <2>1, <2>2, <2>3, <2>4, AgreementAfterAppend
  <2>7. QED
    BY <2>1, <2>2, <2>5, <2>6
<1>23. QED
  BY <1>4, <1>5, <1>6, <1>7, <1>8, <1>9, <1>10, <1>11, <1>12, <1>13, <1>14, <1>15,
     <1>16, <1>17, <1>18, <1>19, <1>20, <1>21, <1>22, Zenon DEF task

\* A step of one execution leaves the others alone, and none goes back to
\* before its save.
LEMMA StepFrame ==
    ASSUME TypeInv, NEW e \in Execution, handler(e) \/ task(e), NEW f \in Execution
    PROVE  /\ f # e => /\ pc'[f] = pc[f] /\ records'[f] = records[f]
                       /\ events'[f] = events[f] /\ verdict'[f] = verdict[f]
           /\ pc[f] \notin UnsavedPoints => pc'[f] \notin UnsavedPoints
           /\ cancels' = cancels
<1>1. /\ pc \in [Execution -> HandlerPoints \cup TaskPoints]
      /\ records \in [Execution -> RecordType]
      /\ events \in [Execution -> Seq(EventKinds)]
      /\ verdict \in [Execution -> [state : TerminalStates \cup {"NONE"},
                                    validation : ValidationOutcomes \cup {"NONE"}]]
  BY DEF TypeInv, TypeOK
<1> HIDE DEF TypeInv
<1> USE <1>1 DEF UnsavedPoints, pipelineVars
<1>2. CASE handler(e)
  BY <1>2 DEF handler, refuseSubmission, submit, findByIdempotencyKey, save, accept,
              appendOrThrow
<1>3. CASE admit(e) \/ commitCancelled(e) \/ start(e) \/ commit(e)
  BY <1>3 DEF admit, commitCancelled, start, commit, updateOrThrow
<1>4. CASE announceAdmitted(e) \/ announceStarted(e)
  BY <1>4 DEF announceAdmitted, announceStarted, appendOrThrow
<1>5. CASE announceCancelled(e) \/ announceOutcome(e) \/ announceFailure(e)
  BY <1>5 DEF announceCancelled, announceOutcome, announceFailure, appendOrSwallow
<1>6. CASE planAnswers(e) \/ checkCancelled(e) \/ execute(e) \/ supervise(e)
           \/ executeReturns(e)
  BY <1>6 DEF planAnswers, checkCancelled, execute, supervise, executeReturns
<1>7. CASE validate(e)
  <2>1. PICK new : verdict' = [verdict EXCEPT ![e] = new]
    BY <1>7 DEF validate
  <2>2. goto(e, "commit") /\ UNCHANGED <<records, events, cancels>>
    BY <1>7 DEF validate
  <2>3. QED
    BY <2>1, <2>2
<1>8. CASE bindSession(e) \/ seedEvidence(e) \/ validationEvidence(e) \/ failRecord(e)
  BY <1>8 DEF bindSession, seedEvidence, validationEvidence, failRecord
<1>9. QED
  BY <1>2, <1>3, <1>4, <1>5, <1>6, <1>7, <1>8 DEF task

\* TaskInv speaks of one execution's point, record, stream and verdict only.
LEMMA TaskInvFramed ==
    ASSUME NEW f \in Execution, TaskInv(f), pc'[f] = pc[f], records'[f] = records[f],
           events'[f] = events[f], verdict'[f] = verdict[f]
    PROVE  TaskInv(f)'
BY DEF TaskInv, TerminalEventAgrees, pendingOutcome, frozen

\* A cancel request keeps the invariant of the execution it is aimed at: it
\* writes an open record only, and appends no terminal event.
LEMMA CancelKeepsTaskInv ==
    ASSUME TypeInv, NEW c \in CancelRequest, CancelInv(c), NEW f \in Execution, TaskInv(f),
           cancelStep(c) \/ \E e \in Execution : requestCancel(c, e)
    PROVE  TaskInv(f)'
<1>1. /\ records \in [Execution -> RecordType] /\ events \in [Execution -> Seq(EventKinds)]
      /\ TerminalEventAgrees(f) /\ pc[f] \in HandlerPoints \cup TaskPoints
  BY DEF TypeInv, TypeOK, TaskInv
<1> DEFINE e == cancels[c].target
<1>2. cancels[c].pc # "idle" => e \in Execution /\ pc[e] \notin UnsavedPoints
  BY DEF TypeInv, CancelHasTarget, CancelInv
<1>3. ASSUME NEW t \in Execution, requestCancel(c, t) PROVE TaskInv(f)'
  BY <1>3, TaskInvFramed DEF requestCancel, pipelineVars
<1>4. CASE commitCancelling(c)
  <2>1. e \in Execution /\ pc[e] \notin UnsavedPoints
    BY <1>2, <1>4 DEF commitCancelling
  <2>2. pc' = pc /\ events' = events /\ verdict' = verdict
    BY <1>4 DEF commitCancelling, pipelineVars
  <2>3. CASE f # e \/ frozen(e)
    <3>1. records'[f] = records[f]
      BY <1>1, <1>4, <2>1, <2>3 DEF commitCancelling
    <3>2. QED
      BY <2>2, <3>1, TaskInvFramed
  <2>4. CASE f = e /\ ~ frozen(e)
    <3>1. records'[f].state = "CANCELLING"
      BY <1>1, <1>4, <2>1, <2>4 DEF commitCancelling, RecordType
    <3>2. pc[f] \in OpenPoints /\ ~ terminated(events[f])
      BY <1>1, <2>1, <2>4
         DEF TaskInv, HandlerPoints, TaskPoints, UnsavedPoints, OpenPoints, SettledPoints
    <3>3. TerminalEventAgrees(f)'
      BY <1>1, <2>2, <3>2, AgreementKept
    <3>4. QED
      BY <2>1, <2>2, <2>4, <3>1, <3>2, <3>3
         DEF TaskInv, UnsavedPoints, OpenPoints, SettledPoints, frozen, TerminalStates
  <2>5. QED
    BY <2>3, <2>4
<1>5. CASE announceCancellation(c)
  <2>1. e \in Execution /\ pc' = pc /\ records' = records /\ verdict' = verdict
    BY <1>2, <1>5 DEF announceCancellation, pipelineVars
  <2>2. events' = [events EXCEPT ![e] = appendedIfOpen(@, "CANCELLATION_REQUESTED")]
    BY <1>5 DEF announceCancellation, appendOrSwallow
  <2>3. CASE events'[f] = events[f]
    BY <2>1, <2>3, TaskInvFramed
  <2>4. CASE events'[f] # events[f]
    <3>1. "CANCELLATION_REQUESTED" \in EventKinds
      BY DEF EventKinds
    <3>2. "CANCELLATION_REQUESTED" \notin TerminalKinds
      BY DEF TerminalKinds
    <3>3. ~ terminated(events[f]) /\ events'[f] = appended(events[f], "CANCELLATION_REQUESTED")
      BY <1>1, <2>1, <2>2, <2>4 DEF appendedIfOpen
    <3>4. ~ terminated(events'[f])
      BY <1>1, <3>1, <3>2, <3>3, TerminatedAppend
    <3>5. TerminalEventAgrees(f)'
      BY <1>1, <3>1, <3>2, <3>3, AgreementAfterAppend
    <3>6. QED
      BY <2>1, <3>3, <3>4, <3>5 DEF TaskInv, pendingOutcome, frozen
  <2>5. QED
    BY <2>3, <2>4
<1>6. CASE signalSupervisor(c)
  BY <1>6, TaskInvFramed DEF signalSupervisor, pipelineVars
<1>7. QED
  BY <1>3, <1>4, <1>5, <1>6 DEF cancelStep

\* A cancel request finds only executions whose record is saved, and keeps
\* its target.
LEMMA CancelKeepsCancelInv ==
    ASSUME TypeInv, NEW c \in CancelRequest, \A e \in Execution : TaskInv(e),
           cancelStep(c) \/ \E e \in Execution : requestCancel(c, e),
           NEW d \in CancelRequest, CancelInv(d)
    PROVE  CancelInv(d)'
<1>1. /\ cancels \in [CancelRequest -> [pc : CancelPoints, sawSession : BOOLEAN,
                                        target : Execution \cup {NoActor}]]
  BY DEF TypeInv, TypeOK
<1>2. ASSUME NEW e \in Execution, requestCancel(c, e) PROVE CancelInv(d)'
  <2>1. pc[e] \notin UnsavedPoints /\ pc' = pc
    BY <1>2 DEF requestCancel, TaskInv
  <2>2. cancels'[d] = cancels[d] \/ cancels'[d].target = e
    BY <1>1, <1>2 DEF requestCancel
  <2>3. QED
    BY <2>1, <2>2 DEF CancelInv
<1>3. CASE cancelStep(c)
  <2>1. pc' = pc /\ cancels[c].pc # "idle"
    BY <1>3 DEF cancelStep, commitCancelling, announceCancellation, signalSupervisor
  <2>2. cancels'[d].target = cancels[d].target /\ (d # c => cancels'[d] = cancels[d])
    BY <1>1, <1>3 DEF cancelStep, commitCancelling, announceCancellation, signalSupervisor
  <2>3. QED
    BY <2>1, <2>2 DEF CancelInv
<1>4. QED
  BY <1>2, <1>3

LEMMA InitInductive == Init => Inductive
<1> SUFFICES ASSUME Init PROVE Inductive
  OBVIOUS
<1>1. \A e \in Execution : TaskInv(e)
  BY DEF Init, TaskInv, TerminalEventAgrees, terminated, frozen, NoRecord, UnsavedPoints,
         OpenPoints, SettledPoints, TerminalStates
<1>2. \A c \in CancelRequest : CancelInv(c)
  BY DEF Init, CancelInv, NoCancel
<1>3. QED
  BY <1>1, <1>2, InitTypes DEF Inductive

LEMMA NextInductive == Inductive /\ [Next]_vars => Inductive'
<1> SUFFICES ASSUME Inductive, [Next]_vars PROVE Inductive'
  OBVIOUS
<1>1. TypeInv /\ TypeInv'
  BY NextTypes DEF Inductive
<1>2. ASSUME NEW e \in Execution, executionStep(e)
      PROVE  /\ \A f \in Execution : TaskInv(f)'
             /\ \A d \in CancelRequest : CancelInv(d)'
  <2>1. handler(e) \/ task(e)
    BY <1>2 DEF executionStep
  <2>2. ASSUME NEW f \in Execution PROVE TaskInv(f)'
    <3>1. TaskInv(f)
      BY DEF Inductive
    <3>2. CASE f = e
      BY <1>1, <2>1, <3>1, <3>2, HandlerKeepsTaskInv, TaskKeepsTaskInv
    <3>3. CASE f # e
      BY <1>1, <2>1, <3>1, <3>3, StepFrame, TaskInvFramed
    <3>4. QED
      BY <3>2, <3>3
  <2>3. ASSUME NEW d \in CancelRequest PROVE CancelInv(d)'
    <3>1. CancelInv(d) /\ (cancels[d].pc # "idle" => cancels[d].target \in Execution)
      BY DEF Inductive, TypeInv, CancelHasTarget
    <3>2. QED
      BY <1>1, <2>1, <3>1, StepFrame DEF CancelInv
  <2>4. QED
    BY <2>2, <2>3
<1>3. ASSUME NEW c \in CancelRequest, cancelRequestStep(c)
      PROVE  /\ \A f \in Execution : TaskInv(f)'
             /\ \A d \in CancelRequest : CancelInv(d)'
  BY <1>1, <1>3, CancelKeepsTaskInv, CancelKeepsCancelInv DEF cancelRequestStep, Inductive
<1>4. CASE quiesce \/ UNCHANGED vars
  <2>1. UNCHANGED vars
    BY <1>4 DEF quiesce
  <2>2. /\ \A f \in Execution : TaskInv(f)'
        /\ \A d \in CancelRequest : CancelInv(d)'
    BY <2>1, TaskInvFramed DEF vars, Inductive, CancelInv
  <2>3. QED
    BY <1>1, <2>2 DEF Inductive
<1>5. QED
  BY <1>1, <1>2, <1>3, <1>4 DEF Next, Inductive

\* Record and stream agree at every control point.
LEMMA InductiveHolds == Spec => []Inductive
BY InitInductive, NextInductive, PTL DEF Spec

\* The stream and the record never tell different outcomes, whichever await
\* interleaves with which cancel, and a finished task leaves both terminal.
THEOREM OutcomeAgrees == Spec => []OutcomeAgreesWithRecord
<1>1. Inductive => OutcomeAgreesWithRecord
  BY DEF Inductive, TaskInv, TerminalEventAgrees, OutcomeAgreesWithRecord
<1>2. QED
  BY InductiveHolds, <1>1, PTL

\* Once terminal, a record keeps its state, result and verdict.
FinalKept(e) ==
    frozen(e) =>
        /\ records'[e].state = records[e].state
        /\ records'[e].result = records[e].result
        /\ records'[e].validation = records[e].validation

LEMMA StepKeepsFinal ==
    ASSUME Inductive, NEW e \in Execution, handler(e) \/ task(e)
    PROVE  FinalKept(e)
<1>1. records \in [Execution -> RecordType] /\ records[e] \in RecordType /\ TaskInv(e)
  BY DEF Inductive, TypeInv, TypeOK
<1> USE <1>1 DEF FinalKept
<1>2. CASE records' = records
  BY <1>2
<1>3. CASE save(e)
  BY <1>3 DEF save, TaskInv, UnsavedPoints
<1>4. CASE admit(e) \/ commitCancelled(e) \/ start(e) \/ commit(e)
  BY <1>4 DEF admit, commitCancelled, start, commit, updateOrThrow
<1>5. CASE bindSession(e) \/ seedEvidence(e) \/ validationEvidence(e) \/ failRecord(e)
  BY <1>5 DEF bindSession, seedEvidence, validationEvidence, failRecord, RecordType
<1>6. QED
  BY <1>2, <1>3, <1>4, <1>5
     DEF handler, task, refuseSubmission, submit, findByIdempotencyKey, accept,
         announceAdmitted, planAnswers, checkCancelled, announceCancelled, announceStarted,
         execute, supervise, executeReturns, validate, announceOutcome, announceFailure

\* A terminal record keeps its outcome through every later step of its own
\* task, of its catch block and of any cancel request.
THEOREM TerminalRecordsFinal == Spec => TerminalRecordsAreFinal
<1>1. Inductive /\ [Next]_vars => [\A e \in Execution : FinalKept(e)]_vars
  <2> SUFFICES ASSUME Inductive, [Next]_vars, NEW f \in Execution PROVE FinalKept(f)
    OBVIOUS
  <2>1. TypeInv /\ records \in [Execution -> RecordType]
    BY DEF Inductive, TypeInv, TypeOK
  <2>2. ASSUME NEW e \in Execution, executionStep(e) PROVE FinalKept(f)
    <3>1. handler(e) \/ task(e)
      BY <2>2 DEF executionStep
    <3>2. QED
      BY <2>1, <3>1, StepKeepsFinal, StepFrame DEF FinalKept
  <2>3. ASSUME NEW c \in CancelRequest, cancelRequestStep(c) PROVE FinalKept(f)
    BY <2>1, <2>3
       DEF cancelRequestStep, cancelStep, requestCancel, commitCancelling,
           announceCancellation, signalSupervisor, FinalKept
  <2>4. CASE quiesce \/ UNCHANGED vars
    BY <2>4 DEF quiesce, vars, FinalKept
  <2>5. QED
    BY <2>2, <2>3, <2>4 DEF Next
<1>2. QED
  BY InductiveHolds, <1>1, PTL DEF Spec, TerminalRecordsAreFinal, FinalKept

-----------------------------------------------------------------------------
(* What a stream tells, its cancellation requests aside.                    *)

\* The least number principle, which stands in for induction.
LEMMA LeastNumber ==
    ASSUME NEW T \in SUBSET Nat, T # {}
    PROVE  \E n \in T : \A m \in T : ~ (m < n)
<1>1. PICK n \in T : \A m \in T : ~ (<<m, n>> \in OpToRel(<, Nat))
  <2> HIDE DEF OpToRel
  <2>1. T \subseteq Nat
    OBVIOUS
  <2>2. QED
    BY <2>1, NatLessThanWellFounded, WFMin, Zenon
<1>2. ASSUME NEW m \in T, m < n PROVE <<m, n>> \in OpToRel(<, Nat)
  <2>1. <<m, n>> \in Nat \X Nat
    OBVIOUS
  <2>2. <<m, n>>[1] < <<m, n>>[2]
    BY <1>2
  <2>3. QED
    BY <2>1, <2>2, Zenon DEF OpToRel
<1>3. QED
  BY <1>1, <1>2, Zenon

\* A stream cut at n, told from its beginning.
Tells(f, log, n) ==
    f = [i \in 0 .. n |->
            IF i = 0 THEN <<>>
            ELSE IF log[i] = "CANCELLATION_REQUESTED" THEN f[i - 1]
            ELSE Append(f[i - 1], log[i])]

\* The telling goes on with the next event.
LEMMA TellsOn ==
    ASSUME NEW log, NEW n \in Nat, NEW f, Tells(f, log, n),
           NEW longer, NEW kind, \A i \in 1 .. n : longer[i] = log[i], longer[n + 1] = kind
    PROVE  \E g : /\ Tells(g, longer, n + 1)
                  /\ g[n + 1] = IF kind = "CANCELLATION_REQUESTED" THEN f[n]
                                ELSE Append(f[n], kind)
<1> DEFINE next(told, k) == IF k = "CANCELLATION_REQUESTED" THEN told ELSE Append(told, k)
           g == [i \in 0 .. n + 1 |-> IF i = n + 1 THEN next(f[n], kind) ELSE f[i]]
<1> HIDE DEF next
<1>1. \A i \in 0 .. n : f[i] = IF i = 0 THEN <<>> ELSE next(f[i - 1], log[i])
  BY DEF Tells, next
<1>2. ASSUME NEW i \in 0 .. n + 1
      PROVE  g[i] = IF i = 0 THEN <<>> ELSE next(g[i - 1], longer[i])
  <2>1. CASE i = n + 1
    <3>1. i - 1 = n /\ n \in 0 .. n + 1 /\ n # n + 1 /\ i # 0
      BY <2>1
    <3>2. QED
      BY <2>1, <3>1
  <2>2. CASE i # n + 1
    <3>1. i \in 0 .. n
      BY <2>2
    <3>2. i # 0 => i \in 1 .. n /\ i - 1 \in 0 .. n + 1 /\ i - 1 # n + 1
      BY <3>1
    <3>3. QED
      BY <1>1, <2>2, <3>1, <3>2
  <2>3. QED
    BY <2>1, <2>2
<1>3. g = [i \in 0 .. n + 1 |-> g[i]]
  OBVIOUS
<1>4. g[n + 1] = next(f[n], kind)
  OBVIOUS
<1> HIDE DEF g
<1>5. g = [i \in 0 .. n + 1 |-> IF i = 0 THEN <<>> ELSE next(g[i - 1], longer[i])]
  BY <1>2, <1>3
<1>6. Tells(g, longer, n + 1)
  BY <1>5 DEF Tells, next
<1>7. QED
  BY <1>4, <1>6 DEF next

\* There is a way to tell a log: by induction over its length, in the form of the
\* least length that has none.
LEMMA TellingExists ==
    ASSUME NEW log, NEW n \in Nat
    PROVE  \E f : Tells(f, log, n)
<1> DEFINE Bad == {k \in Nat : ~ \E f : Tells(f, log, k)}
<1>1. SUFFICES ASSUME Bad # {} PROVE FALSE
  BY DEF Bad
<1>2. PICK k \in Bad : \A i \in Bad : ~ (i < k)
  BY <1>1, LeastNumber
<1>3. k \in Nat /\ ~ \E f : Tells(f, log, k)
  OBVIOUS
<1> HIDE DEF Bad
<1>4. CASE k = 0
  <2> DEFINE f == [i \in 0 .. 0 |-> <<>>]
  <2>1. Tells(f, log, 0)
    BY DEF Tells
  <2>2. QED
    BY <1>3, <1>4, <2>1
<1>5. CASE k # 0
  <2>1. k - 1 \in Nat /\ k - 1 < k /\ (k - 1) + 1 = k
    BY <1>3, <1>5
  <2>2. PICK f : Tells(f, log, k - 1)
    BY <1>2, <2>1 DEF Bad
  <2>3. \E g : Tells(g, log, k - 1 + 1)
    BY <2>1, <2>2, TellsOn
  <2>4. QED
    BY <1>3, <2>1, <2>3
<1>6. QED
  BY <1>4, <1>5

\* And there is only one.
LEMMA TellingUnique ==
    ASSUME NEW log, NEW n \in Nat, NEW f, NEW g, Tells(f, log, n), Tells(g, log, n)
    PROVE  f[n] = g[n]
<1> DEFINE Bad == {k \in 0 .. n : f[k] # g[k]}
<1>1. SUFFICES ASSUME Bad # {} PROVE FALSE
  BY DEF Bad
<1>2. PICK k \in Bad : \A i \in Bad : ~ (i < k)
  <2>1. Bad \in SUBSET Nat
    OBVIOUS
  <2> HIDE DEF Bad
  <2>2. QED
    BY <1>1, <2>1, LeastNumber
<1>3. k \in 0 .. n /\ f[k] # g[k]
  OBVIOUS
<1>4. k # 0 => k - 1 \in 0 .. n /\ k - 1 < k
  BY <1>3
<1>5. k # 0 => f[k - 1] = g[k - 1]
  BY <1>2, <1>4
<1> HIDE DEF Bad
<1>6. QED
  BY <1>3, <1>5 DEF Tells

\* What mainStory folds together is that one telling.
LEMMA StoryTold ==
    ASSUME NEW log \in Seq(EventKinds)
    PROVE  \E f : Tells(f, log, Len(log)) /\ mainStory(log) = f[Len(log)]
<1> DEFINE n == Len(log)
           f == CHOOSE g : Tells(g, log, n)
<1>1. n \in Nat
  OBVIOUS
<1>2. Tells(f, log, n)
  BY <1>1, TellingExists, Zenon
<1>3. mainStory(log) = f[n]
  BY Zenon DEF mainStory, Tells
<1>4. QED
  BY <1>2, <1>3

LEMMA EmptyStory == mainStory(<<>>) = <<>>
<1> DEFINE log == <<>>
<1>1. log \in Seq(EventKinds) /\ Len(log) = 0
  OBVIOUS
<1> HIDE DEF log
<1>2. PICK f : Tells(f, log, 0) /\ mainStory(log) = f[0]
  BY <1>1, StoryTold
<1>3. f[0] = <<>>
  BY <1>2 DEF Tells
<1>4. QED
  BY <1>2, <1>3 DEF log

\* The story of a stream grows with every event but a cancellation request.
LEMMA StoryGrows ==
    ASSUME NEW log \in Seq(EventKinds), NEW kind \in EventKinds
    PROVE  mainStory(appended(log, kind)) =
               IF kind = "CANCELLATION_REQUESTED" THEN mainStory(log)
               ELSE Append(mainStory(log), kind)
<1> DEFINE n == Len(log)
           longer == Append(log, kind)
<1>1. n \in Nat /\ longer \in Seq(EventKinds) /\ Len(longer) = n + 1
      /\ (\A i \in 1 .. n : longer[i] = log[i]) /\ longer[n + 1] = kind
  OBVIOUS
<1> HIDE DEF longer
<1>2. PICK f : Tells(f, log, n) /\ mainStory(log) = f[n]
  BY StoryTold
<1>3. PICK h : Tells(h, longer, n + 1) /\ mainStory(longer) = h[n + 1]
  BY <1>1, StoryTold
<1>4. PICK g : /\ Tells(g, longer, n + 1)
               /\ g[n + 1] = IF kind = "CANCELLATION_REQUESTED" THEN f[n] ELSE Append(f[n], kind)
  <2> HIDE DEF n
  <2>1. QED
    BY <1>1, <1>2, TellsOn
<1>5. h[n + 1] = g[n + 1]
  BY <1>1, <1>3, <1>4, TellingUnique
<1>6. QED
  BY <1>2, <1>3, <1>4, <1>5 DEF appended, longer

-----------------------------------------------------------------------------
(* What a step of an actor does to an execution.                            *)

\* What a step of an execution does to its own record, stream, verdict and
\* session.  An update or an append of the try block is never refused.
passes(e, from, to) == pc[e] = from /\ pc'[e] = to

keepsRecord(e) == records'[e] = records[e]

keepsStream(e) == events'[e] = events[e]

keepsVerdict(e) == verdict'[e] = verdict[e]

keepsSession(e) == session'[e] = session[e]

Writes(e, from, to, record) ==
    /\ passes(e, from, to) /\ records'[e] = record
    /\ keepsStream(e) /\ keepsVerdict(e) /\ keepsSession(e)

Says(e, from, to, kind) ==
    /\ passes(e, from, to) /\ events'[e] = appended(events[e], kind)
    /\ keepsRecord(e) /\ keepsVerdict(e) /\ keepsSession(e)

Judges(e, from, to, judgement) ==
    /\ passes(e, from, to) /\ verdict'[e] = judgement
    /\ keepsRecord(e) /\ keepsStream(e) /\ keepsSession(e)

Supervises(e, from, to) ==
    /\ passes(e, from, to) /\ keepsRecord(e) /\ keepsStream(e) /\ keepsVerdict(e)

judged(e) ==
    [records[e] EXCEPT
        !.state = verdict[e].state,
        !.result = IF verdict[e].validation = "INVALID" THEN "null" ELSE "output",
        !.validation = verdict[e].validation]

Saves(e) ==
    /\ Writes(e, "save", "accept", newRecord)
    /\ byIdemKey' = IF request[e].key = NoKey THEN byIdemKey
                    ELSE [byIdemKey EXCEPT ![request[e].key] = e]
    /\ answer' = answer /\ request' = request

Looks(e) ==
    /\ \E to \in {"save", "conflict", "replayed"} : Writes(e, "lookup", to, records[e])
    /\ pc'[e] = "save" => answer' = answer /\ byIdemKey[request[e].key] = NoActor
    /\ pc'[e] = "conflict" => answer' = answer
    /\ pc'[e] = "replayed" =>
           /\ byIdemKey[request[e].key] # NoActor
           /\ request[byIdemKey[request[e].key]].content = request[e].content
           /\ answer' = [answer EXCEPT ![e] = byIdemKey[request[e].key]]
    /\ byIdemKey' = byIdemKey /\ request' = request

Submits(e) ==
    /\ \/ Writes(e, "idle", "refused", records[e]) /\ request' = request
       \/ /\ \E to \in {"save", "lookup"} : Writes(e, "idle", to, records[e])
          /\ \E body \in Request : /\ request' = [request EXCEPT ![e] = body]
                                   /\ pc'[e] = "save" <=> body.key = NoKey
    /\ answer' = answer /\ byIdemKey' = byIdemKey

Accepts(e) ==
    /\ Says(e, "accept", "admit", "EXECUTION_ACCEPTED")
    /\ answer' = [answer EXCEPT ![e] = e]
    /\ byIdemKey' = byIdemKey /\ request' = request

HandlerMove(e) == Submits(e) \/ Looks(e) \/ Saves(e) \/ Accepts(e)

TaskMove(e) ==
    \/ Writes(e, "admit", "announceAdmitted", [records[e] EXCEPT !.state = "ADMITTED"])
    \/ Says(e, "announceAdmitted", "planning", "EXECUTION_ADMITTED")
    \/ Writes(e, "planning", "bindSession", records[e])
    \/ Writes(e, "planning", "failRecord", records[e])
    \/ Writes(e, "bindSession", "checkCancelled", [records[e] EXCEPT !.sessionKnown = TRUE])
    \/ /\ Writes(e, "checkCancelled", "commitCancelled", records[e])
       /\ records[e].state = "CANCELLING"
    \/ /\ Writes(e, "checkCancelled", "start", records[e])
       /\ records[e].state # "CANCELLING"
    \/ Writes(e, "commitCancelled", "announceCancelled",
              [records[e] EXCEPT !.state = "CANCELLED", !.result = "null"])
    \/ Says(e, "announceCancelled", "done", "EXECUTION_CANCELLED")
    \/ Writes(e, "start", "announceStarted", [records[e] EXCEPT !.state = "RUNNING"])
    \/ Says(e, "announceStarted", "execute", "EXECUTION_STARTED")
    \/ Supervises(e, "execute", "executing") /\ session'[e].state = "RUNNING"
    \/ Supervises(e, "execute", "failRecord") /\ session'[e].state = "READY"
    \/ /\ Supervises(e, "executing", "executing")
       /\ session'[e].state = "CANCELLED" => session[e].state = "CANCELLED" \/ e \in cancelled
    \/ /\ Judges(e, "executing", "validate",
                 [state |-> "COMPLETED", validation |-> "NONE"])
       /\ request[e].schemaBound /\ session[e].state = "COMPLETED"
    \/ /\ Judges(e, "executing", "commit",
                 [state      |-> toPublicState(session[e].state),
                  validation |-> IF request[e].schemaBound THEN "NONE" ELSE "NOT_REQUESTED"])
       /\ request[e].schemaBound => toPublicState(session[e].state) # "COMPLETED"
    \/ \E outcome \in {"VALID", "INVALID", "NOT_EVALUATED"} :
           Judges(e, "validate", "commit",
                  [state      |-> IF outcome = "INVALID" THEN "FAILED" ELSE verdict[e].state,
                   validation |-> outcome])
    \/ Writes(e, "commit", "seedEvidence", judged(e))
    \/ /\ Writes(e, "seedEvidence", "announceOutcome",
                 [records[e] EXCEPT !.evidence = @ \cup {"steps"}])
       /\ verdict[e].validation \in {"NONE", "NOT_REQUESTED"}
    \/ Writes(e, "seedEvidence", "validationEvidence",
              [records[e] EXCEPT !.evidence = @ \cup {"steps"}])
    \/ Writes(e, "validationEvidence", "announceOutcome",
              [records[e] EXCEPT !.evidence = @ \cup {"validation"}])
    \/ Says(e, "announceOutcome", "done", TerminalKindOf(verdict[e].state))
    \/ Writes(e, "failRecord", "announceFailure",
              [records[e] EXCEPT !.state = "FAILED", !.result = "null"])
    \/ Says(e, "announceFailure", "done", "EXECUTION_FAILED")

\* Every action of a submission's handler is one of its moves.
LEMMA HandlerMoves ==
    ASSUME TypeInv, NEW e \in Execution, TaskInv(e), handler(e)
    PROVE  HandlerMove(e) /\ session' = session /\ cancelled' = cancelled
<1>1. /\ pc \in [Execution -> HandlerPoints \cup TaskPoints]
      /\ records \in [Execution -> RecordType] /\ events \in [Execution -> Seq(EventKinds)]
  BY DEF TypeInv, TypeOK
<1> USE <1>1 DEF HandlerMove, passes, keepsRecord, keepsStream, keepsVerdict, keepsSession,
                 pipelineVars, supervisorVars
<1>2. CASE refuseSubmission(e)
  BY <1>2 DEF refuseSubmission, Submits, Writes
<1>3. ASSUME NEW body \in Request, submit(e, body)
      PROVE  HandlerMove(e) /\ session' = session /\ cancelled' = cancelled
  BY <1>3 DEF submit, Submits, Writes
<1>4. CASE findByIdempotencyKey(e)
  BY <1>4 DEF findByIdempotencyKey, Looks, Writes
<1>5. CASE save(e)
  BY <1>5 DEF save, Saves, Writes
<1>6. CASE accept(e)
  <2>1. ~ terminated(events[e])
    BY <1>6 DEF accept, TaskInv, OpenPoints
  <2>2. QED
    BY <1>6, <2>1 DEF accept, appendOrThrow, Accepts, Says
<1>7. QED
  BY <1>2, <1>3, <1>4, <1>5, <1>6 DEF handler

\* An update or an append of the try block, accepted.
LEMMA UpdateWrites ==
    ASSUME TypeInv, NEW e \in Execution, TaskInv(e), NEW from \in OpenPoints, pc[e] = from,
           NEW to, NEW record, updateOrThrow(e, record, to),
           UNCHANGED <<pipelineVars, events, supervisorVars, cancels>>
    PROVE  Writes(e, from, to, record)
<1>1. ~ frozen(e)
  BY DEF TaskInv
<1>2. QED
  BY <1>1, UpdateAccepted
     DEF Writes, passes, keepsStream, keepsVerdict, keepsSession, pipelineVars, supervisorVars

LEMMA AppendSays ==
    ASSUME TypeInv, NEW e \in Execution, TaskInv(e), NEW from \in OpenPoints, pc[e] = from,
           NEW to, NEW kind, appendOrThrow(e, kind, to),
           UNCHANGED <<pipelineVars, records, supervisorVars, cancels>>
    PROVE  Says(e, from, to, kind)
<1>1. ~ terminated(events[e])
  BY DEF TaskInv
<1>2. /\ events' = [events EXCEPT ![e] = appended(events[e], kind)]
      /\ pc' = [pc EXCEPT ![e] = to]
  BY <1>1 DEF appendOrThrow
<1>3. QED
  BY <1>2 DEF Says, passes, keepsRecord, keepsVerdict, keepsSession, pipelineVars,
              supervisorVars, TypeInv, TypeOK

\* The last append of a task.
LEMMA LastAppendSays ==
    ASSUME TypeInv, NEW e \in Execution, TaskInv(e), NEW from \in SettledPoints, pc[e] = from,
           NEW kind, appendOrSwallow(e, kind), goto(e, "done"),
           UNCHANGED <<pipelineVars, records, supervisorVars, cancels>>
    PROVE  Says(e, from, "done", kind)
<1>1. ~ terminated(events[e])
  BY DEF TaskInv
<1>2. events' = [events EXCEPT ![e] = appended(events[e], kind)]
  BY <1>1 DEF appendOrSwallow, appendedIfOpen
<1>3. QED
  BY <1>2 DEF Says, passes, keepsRecord, keepsVerdict, keepsSession, pipelineVars,
              supervisorVars, TypeInv, TypeOK

\* A step of the supervisor is on one session, and CANCELLED is a verdict on
\* cancelled sessions only.
LEMMA SupervisorProgress ==
    ASSUME Supervisor!TypeOK, NEW e \in Execution, Supervisor!progress(e)
    PROVE  /\ cancelled' = cancelled
           /\ \A f \in Execution \ {e} : session'[f] = session[f]
           /\ session'[e].state = "CANCELLED" => session[e].state = "CANCELLED" \/ e \in cancelled
<1>1. session \in [Execution -> Supervisor!SessionType] /\ session[e] \in Supervisor!SessionType
  BY DEF Supervisor!TypeOK
<1> USE <1>1 DEF Supervisor!SessionType
<1>2. CASE Supervisor!observeCancel(e)
  BY <1>2 DEF Supervisor!observeCancel
<1>3. CASE Supervisor!startStep(e)
  BY <1>3 DEF Supervisor!startStep
<1>4. CASE Supervisor!complete(e)
  BY <1>4 DEF Supervisor!complete
<1>5. ASSUME NEW outcome \in Supervisor!Outcome, Supervisor!stepSucceeds(e, outcome)
      PROVE  /\ cancelled' = cancelled
             /\ \A f \in Execution \ {e} : session'[f] = session[f]
             /\ session'[e].state = session[e].state
  BY <1>5 DEF Supervisor!stepSucceeds
<1>6. ASSUME NEW outcome \in Supervisor!Outcome, Supervisor!retryStep(e, outcome)
      PROVE  /\ cancelled' = cancelled
             /\ \A f \in Execution \ {e} : session'[f] = session[f]
             /\ session'[e].state = session[e].state
  BY <1>6 DEF Supervisor!retryStep
<1>7. ASSUME NEW outcome \in Supervisor!Outcome, Supervisor!stepFails(e, outcome)
      PROVE  /\ cancelled' = cancelled
             /\ \A f \in Execution \ {e} : session'[f] = session[f]
             /\ session'[e].state \in {"FAILED", "TIMED_OUT"}
  BY <1>7 DEF Supervisor!stepFails
<1>8. QED
  BY <1>2, <1>3, <1>4, <1>5, <1>6, <1>7, Zenon
     DEF Supervisor!progress, Supervisor!ownStep, Supervisor!invocationAnswers

\* Every action of a background task is one of its moves.
LEMMA TaskMoves ==
    ASSUME TypeInv, NEW e \in Execution, TaskInv(e), task(e)
    PROVE  /\ TaskMove(e)
           /\ request' = request /\ byIdemKey' = byIdemKey /\ answer' = answer
           /\ cancelled' = cancelled /\ \A f \in Execution \ {e} : session'[f] = session[f]
<1>1. /\ pc \in [Execution -> HandlerPoints \cup TaskPoints]
      /\ records \in [Execution -> RecordType] /\ events \in [Execution -> Seq(EventKinds)]
      /\ verdict \in [Execution -> [state : TerminalStates \cup {"NONE"},
                                    validation : ValidationOutcomes \cup {"NONE"}]]
      /\ session \in [Execution -> Supervisor!SessionType]
  BY DEF TypeInv, TypeOK, Supervisor!TypeOK
<1> DEFINE Quiet == /\ request' = request /\ byIdemKey' = byIdemKey /\ answer' = answer
                    /\ cancelled' = cancelled
                    /\ \A f \in Execution \ {e} : session'[f] = session[f]
           Goal == TaskMove(e) /\ Quiet
<1> USE DEF passes, keepsRecord, keepsStream, keepsVerdict, keepsSession,
            pipelineVars, supervisorVars
<1>3. CASE admit(e)
  <2>1. Writes(e, "admit", "announceAdmitted", [records[e] EXCEPT !.state = "ADMITTED"])
    BY <1>3, UpdateWrites DEF admit, OpenPoints
  <2>2. QED
    BY <1>3, <2>1 DEF admit, TaskMove
<1>4. CASE announceAdmitted(e)
  <2>1. Says(e, "announceAdmitted", "planning", "EXECUTION_ADMITTED")
    BY <1>4, AppendSays DEF announceAdmitted, OpenPoints
  <2>2. QED
    BY <1>4, <2>1 DEF announceAdmitted, TaskMove
<1>5. CASE planAnswers(e)
  BY <1>1, <1>5 DEF planAnswers, TaskMove, Writes
<1>6. CASE bindSession(e)
  <2>1. Writes(e, "bindSession", "checkCancelled", [records[e] EXCEPT !.sessionKnown = TRUE])
    BY <1>1, <1>6 DEF bindSession, Writes
  <2>2. QED
    BY <1>6, <2>1 DEF bindSession, TaskMove
<1>7. CASE checkCancelled(e)
  BY <1>1, <1>7 DEF checkCancelled, TaskMove, Writes
<1>8. CASE commitCancelled(e)
  <2>1. Writes(e, "commitCancelled", "announceCancelled",
               [records[e] EXCEPT !.state = "CANCELLED", !.result = "null"])
    BY <1>8, UpdateWrites DEF commitCancelled, OpenPoints
  <2>2. QED
    BY <1>8, <2>1 DEF commitCancelled, TaskMove
<1>9. CASE announceCancelled(e)
  <2>1. Says(e, "announceCancelled", "done", "EXECUTION_CANCELLED")
    BY <1>9, LastAppendSays DEF announceCancelled, SettledPoints
  <2>2. QED
    BY <1>9, <2>1 DEF announceCancelled, TaskMove
<1>10. CASE start(e)
  <2>1. Writes(e, "start", "announceStarted", [records[e] EXCEPT !.state = "RUNNING"])
    BY <1>10, UpdateWrites DEF start, OpenPoints
  <2>2. QED
    BY <1>10, <2>1 DEF start, TaskMove
<1>11. CASE announceStarted(e)
  <2>1. Says(e, "announceStarted", "execute", "EXECUTION_STARTED")
    BY <1>11, AppendSays DEF announceStarted, OpenPoints
  <2>2. QED
    BY <1>11, <2>1 DEF announceStarted, TaskMove
<1>12. CASE execute(e)
  <2>1. PICK plan \in Plan :
            \/ Supervisor!begin(e, plan) /\ goto(e, "executing")
            \/ Supervisor!beginThrows(e, plan) /\ goto(e, "failRecord")
    BY <1>12 DEF execute
  <2>2. /\ pc[e] = "execute" /\ records' = records /\ events' = events
        /\ UNCHANGED pipelineVars
    BY <1>12 DEF execute
  <2>3. CASE Supervisor!begin(e, plan) /\ goto(e, "executing")
    <3>1. /\ session' = [session EXCEPT ![e] = [session[e] EXCEPT
                 !.state = "RUNNING", !.plan = plan, !.order = Supervisor!ordered(plan)]]
          /\ cancelled' = cancelled
      BY <1>1, <2>3 DEF Supervisor!begin
    <3>2. session'[e].state = "RUNNING" /\ \A f \in Execution \ {e} : session'[f] = session[f]
      BY <1>1, <3>1 DEF Supervisor!SessionType
    <3>3. QED
      BY <1>1, <2>2, <2>3, <3>1, <3>2 DEF TaskMove, Supervises
  <2>4. CASE Supervisor!beginThrows(e, plan) /\ goto(e, "failRecord")
    <3>1. /\ session' = [session EXCEPT ![e] = [session[e] EXCEPT
                                                   !.state = "READY", !.plan = plan]]
          /\ cancelled' = cancelled
      BY <1>1, <2>4 DEF Supervisor!beginThrows
    <3>2. session'[e].state = "READY" /\ \A f \in Execution \ {e} : session'[f] = session[f]
      BY <1>1, <3>1 DEF Supervisor!SessionType
    <3>3. QED
      BY <1>1, <2>2, <2>4, <3>1, <3>2 DEF TaskMove, Supervises
  <2>5. QED
    BY <2>1, <2>3, <2>4
<1>13. CASE supervise(e)
  <2>1. /\ pc[e] = "executing" /\ pc' = pc /\ records' = records /\ events' = events
        /\ UNCHANGED pipelineVars /\ Supervisor!progress(e)
    BY <1>13 DEF supervise
  <2>2. /\ cancelled' = cancelled /\ \A f \in Execution \ {e} : session'[f] = session[f]
        /\ session'[e].state = "CANCELLED" => session[e].state = "CANCELLED" \/ e \in cancelled
    BY <2>1, SupervisorProgress DEF TypeInv, TypeOK
  <2>3. Supervises(e, "executing", "executing")
    BY <2>1 DEF Supervises
  <2>4. QED
    BY <2>1, <2>2, <2>3 DEF TaskMove
<1>14. CASE executeReturns(e)
  <2> DEFINE state == toPublicState(session[e].state)
             bound == request[e].schemaBound
             judgement == [state      |-> state,
                           validation |-> IF bound THEN "NONE" ELSE "NOT_REQUESTED"]
  <2>1. /\ pc[e] = "executing" /\ verdict' = [verdict EXCEPT ![e] = judgement]
        /\ pc' = [pc EXCEPT ![e] = IF state = "COMPLETED" /\ bound THEN "validate" ELSE "commit"]
        /\ records' = records /\ events' = events /\ session' = session /\ Quiet
    BY <1>14 DEF executeReturns
  <2>2. verdict'[e] = judgement
    BY <1>1, <2>1
  <2>3. state = "COMPLETED" => session[e].state = "COMPLETED"
    BY DEF toPublicState
  <2> HIDE DEF judgement, Quiet
  <2>4. CASE state = "COMPLETED" /\ bound
    <3>1. Judges(e, "executing", "validate", judgement)
      BY <1>1, <2>1, <2>2, <2>4 DEF Judges
    <3>2. judgement = [state |-> "COMPLETED", validation |-> "NONE"]
      BY <2>4 DEF judgement
    <3>3. QED
      BY <2>1, <2>3, <2>4, <3>1, <3>2 DEF TaskMove, Quiet
  <2>5. CASE ~ (state = "COMPLETED" /\ bound)
    <3>1. Judges(e, "executing", "commit", judgement)
      BY <1>1, <2>1, <2>2, <2>5 DEF Judges
    <3>2. QED
      BY <2>1, <2>5, <3>1 DEF TaskMove, judgement, Quiet
  <2>6. QED
    BY <2>4, <2>5
<1>15. CASE validate(e)
  <2>1. PICK outcome \in {"VALID", "INVALID", "NOT_EVALUATED"} :
            verdict' = [verdict EXCEPT ![e] =
                [state      |-> IF outcome = "INVALID" THEN "FAILED" ELSE verdict[e].state,
                 validation |-> outcome]]
    BY <1>15 DEF validate
  <2>2. /\ pc[e] = "validate" /\ pc' = [pc EXCEPT ![e] = "commit"]
        /\ records' = records /\ events' = events /\ session' = session /\ Quiet
    BY <1>15 DEF validate
  <2>3. Judges(e, "validate", "commit",
               [state      |-> IF outcome = "INVALID" THEN "FAILED" ELSE verdict[e].state,
                validation |-> outcome])
    BY <1>1, <2>1, <2>2 DEF Judges
  <2>4. QED
    BY <2>2, <2>3 DEF TaskMove
<1>16. CASE commit(e)
  <2>1. Writes(e, "commit", "seedEvidence", judged(e))
    BY <1>16, UpdateWrites DEF commit, OpenPoints, judged
  <2>2. QED
    BY <1>16, <2>1 DEF commit, TaskMove
<1>17. CASE seedEvidence(e)
  <2> DEFINE record == [records[e] EXCEPT !.evidence = @ \cup {"steps"}]
             to == IF verdict[e].validation \in {"NONE", "NOT_REQUESTED"}
                   THEN "announceOutcome" ELSE "validationEvidence"
  <2>1. /\ pc[e] = "seedEvidence" /\ records' = [records EXCEPT ![e] = record]
        /\ pc' = [pc EXCEPT ![e] = to]
        /\ verdict' = verdict /\ events' = events /\ session' = session /\ Quiet
    BY <1>17 DEF seedEvidence
  <2> HIDE DEF record, Quiet
  <2>2. Writes(e, "seedEvidence", to, record)
    BY <1>1, <2>1 DEF Writes
  <2>3. QED
    BY <2>1, <2>2 DEF TaskMove, record, Quiet
<1>18. CASE validationEvidence(e)
  <2> DEFINE record == [records[e] EXCEPT !.evidence = @ \cup {"validation"}]
  <2>1. /\ pc[e] = "validationEvidence" /\ records' = [records EXCEPT ![e] = record]
        /\ pc' = [pc EXCEPT ![e] = "announceOutcome"]
        /\ verdict' = verdict /\ events' = events /\ session' = session /\ Quiet
    BY <1>18 DEF validationEvidence
  <2> HIDE DEF record, Quiet
  <2>2. Writes(e, "validationEvidence", "announceOutcome", record)
    BY <1>1, <2>1 DEF Writes
  <2>3. QED
    BY <2>1, <2>2 DEF TaskMove, record, Quiet
<1>19. CASE announceOutcome(e)
  <2>1. Says(e, "announceOutcome", "done", TerminalKindOf(verdict[e].state))
    BY <1>19, LastAppendSays DEF announceOutcome, SettledPoints
  <2>2. QED
    BY <1>19, <2>1 DEF announceOutcome, TaskMove
<1>20. CASE failRecord(e)
  <2> DEFINE record == [records[e] EXCEPT !.state = "FAILED", !.result = "null"]
  <2>1. ~ frozen(e)
    BY <1>20 DEF failRecord, TaskInv, OpenPoints
  <2>2. /\ pc[e] = "failRecord" /\ records' = [records EXCEPT ![e] = record]
        /\ pc' = [pc EXCEPT ![e] = "announceFailure"]
        /\ verdict' = verdict /\ events' = events /\ session' = session /\ Quiet
    BY <1>20, <2>1 DEF failRecord
  <2> HIDE DEF record, Quiet
  <2>3. Writes(e, "failRecord", "announceFailure", record)
    BY <1>1, <2>2 DEF Writes
  <2>4. QED
    BY <2>2, <2>3 DEF TaskMove, record, Quiet
<1>21. CASE announceFailure(e)
  <2>1. Says(e, "announceFailure", "done", "EXECUTION_FAILED")
    BY <1>21, LastAppendSays DEF announceFailure, SettledPoints
  <2>2. QED
    BY <1>21, <2>1 DEF announceFailure, TaskMove
<1>22. QED
  BY <1>3, <1>4, <1>5, <1>6, <1>7, <1>8, <1>9, <1>10, <1>11, <1>12, <1>13, <1>14, <1>15,
     <1>16, <1>17, <1>18, <1>19, <1>20, <1>21, Zenon DEF task

\* What a cancel request does to an execution: it marks an open record, or
\* appends to an open stream, or neither.
CancelMove(f) ==
    /\ pc'[f] = pc[f] /\ verdict'[f] = verdict[f] /\ request'[f] = request[f]
    /\ \/ records'[f] = records[f]
       \/ /\ records'[f] = [records[f] EXCEPT !.state = "CANCELLING"]
          /\ ~ frozen(f) /\ pc[f] \in OpenPoints
    /\ \/ events'[f] = events[f]
       \/ /\ ~ terminated(events[f])
          /\ events'[f] = appended(events[f], "CANCELLATION_REQUESTED")

\* A cancel request marks a record, appends its event, signals, or does nothing.
LEMMA CancelMoves ==
    ASSUME TypeInv, NEW c \in CancelRequest, CancelInv(c), NEW f \in Execution, TaskInv(f),
           cancelStep(c) \/ \E e \in Execution : requestCancel(c, e)
    PROVE  CancelMove(f)
<1>1. /\ records \in [Execution -> RecordType] /\ events \in [Execution -> Seq(EventKinds)]
      /\ pc[f] \in HandlerPoints \cup TaskPoints
  BY DEF TypeInv, TypeOK
<1> DEFINE e == cancels[c].target
<1>2. cancels[c].pc # "idle" => e \in Execution /\ pc[e] \notin UnsavedPoints
  BY DEF TypeInv, CancelHasTarget, CancelInv
<1>3. ASSUME NEW t \in Execution, requestCancel(c, t) PROVE CancelMove(f)
  BY <1>3 DEF requestCancel, pipelineVars, CancelMove
<1>4. CASE commitCancelling(c)
  <2>1. e \in Execution /\ pc[e] \notin UnsavedPoints
    BY <1>2, <1>4 DEF commitCancelling
  <2>2. pc' = pc /\ events' = events /\ verdict' = verdict /\ request' = request
    BY <1>4 DEF commitCancelling, pipelineVars
  <2>3. CASE f # e \/ frozen(e)
    <3>1. records'[f] = records[f]
      BY <1>1, <1>4, <2>1, <2>3 DEF commitCancelling
    <3>2. QED
      BY <2>2, <3>1 DEF CancelMove
  <2>4. CASE f = e /\ ~ frozen(e)
    <3>1. records'[f] = [records[f] EXCEPT !.state = "CANCELLING"]
      BY <1>1, <1>4, <2>1, <2>4 DEF commitCancelling
    <3>2. pc[f] \in OpenPoints
      BY <1>1, <2>1, <2>4
         DEF TaskInv, HandlerPoints, TaskPoints, UnsavedPoints, OpenPoints, SettledPoints
    <3>3. QED
      BY <2>2, <2>4, <3>1, <3>2 DEF CancelMove
  <2>5. QED
    BY <2>3, <2>4
<1>5. CASE announceCancellation(c)
  <2>1. /\ e \in Execution /\ pc' = pc /\ records' = records /\ verdict' = verdict
        /\ request' = request
    BY <1>2, <1>5 DEF announceCancellation, pipelineVars
  <2>2. events' = [events EXCEPT ![e] = appendedIfOpen(@, "CANCELLATION_REQUESTED")]
    BY <1>5 DEF announceCancellation, appendOrSwallow
  <2>3. \/ events'[f] = events[f]
        \/ /\ ~ terminated(events[f])
           /\ events'[f] = appended(events[f], "CANCELLATION_REQUESTED")
    BY <1>1, <2>1, <2>2 DEF appendedIfOpen
  <2>4. QED
    BY <2>1, <2>3 DEF CancelMove
<1>6. CASE signalSupervisor(c)
  BY <1>6 DEF signalSupervisor, pipelineVars, CancelMove
<1>7. QED
  BY <1>3, <1>4, <1>5, <1>6 DEF cancelStep

-----------------------------------------------------------------------------
(* What is served: the output, its validation, and the stream's story.      *)

\* From the end of the supervision on, the verdict is the one to be written.
JudgedPoints == {"commit", "seedEvidence", "validationEvidence", "announceOutcome"}

Withheld(e) ==
    /\ pc[e] \in UnsavedPoints \cup OpenPoints => records[e].validation = "NONE"
    /\ pc[e] = "validate" => verdict[e].state = "COMPLETED"
    /\ pc[e] \in JudgedPoints =>
           /\ verdict[e].validation = "INVALID" => verdict[e].state = "FAILED"
           /\ verdict[e].state = "COMPLETED" /\ request[e].schemaBound =>
                  verdict[e].validation \in {"VALID", "NOT_EVALUATED"}
    /\ records[e].validation = "INVALID" =>
           records[e].state = "FAILED" /\ records[e].result = "null"
    /\ records[e].state = "COMPLETED" /\ request[e].schemaBound =>
           records[e].validation \in {"VALID", "NOT_EVALUATED"}
    /\ frozen(e) => records[e].result # "none"

Acceptance == <<"EXECUTION_ACCEPTED">>
Admission == Append(Acceptance, "EXECUTION_ADMITTED")
Beginning == Append(Admission, "EXECUTION_STARTED")

\* Where the task stands determines the story its stream has told.
Storied(e) ==
    LET told == mainStory(events[e])
    IN  /\ pc[e] \in UnsavedPoints \cup {"accept"} => told = <<>>
        /\ pc[e] \in {"admit", "announceAdmitted"} => told = Acceptance
        /\ pc[e] \in {"planning", "bindSession", "checkCancelled", "commitCancelled",
                      "announceCancelled", "start", "announceStarted"} => told = Admission
        /\ pc[e] \in {"execute", "executing", "validate"} \cup JudgedPoints => told = Beginning
        /\ pc[e] \in {"failRecord", "announceFailure"} => told \in {Admission, Beginning}
        /\ pc[e] = "done" =>
               \/ \E k \in {"EXECUTION_FAILED", "EXECUTION_CANCELLED"} : told = Append(Admission, k)
               \/ \E k \in TerminalKinds : told = Append(Beginning, k)

\* The evidence is in the record before the completion is announced.
EvidencePending(e) ==
    /\ pc[e] \in {"validationEvidence", "announceOutcome"} => "steps" \in records[e].evidence
    /\ pc[e] = "announceOutcome" /\ verdict[e].validation \notin {"NONE", "NOT_REQUESTED"} =>
           "validation" \in records[e].evidence

CompletionEvidenced(e) ==
    \A i \in DOMAIN events[e] : events[e][i] = "EXECUTION_COMPLETED" =>
        /\ "steps" \in records[e].evidence
        /\ request[e].schemaBound => "validation" \in records[e].evidence

ServedInv(e) == Withheld(e) /\ Storied(e) /\ EvidencePending(e) /\ CompletionEvidenced(e)

\* A record that is open says nothing of an output yet.
LEMMA OpenSaysNothing ==
    ASSUME NEW e \in Execution, TaskInv(e), Withheld(e), pc[e] \in UnsavedPoints \cup OpenPoints
    PROVE  records[e].validation = "NONE" /\ records[e].state \notin TerminalStates
BY DEF TaskInv, Withheld, frozen

\* No step of the task serves an output that its schema refused.
LEMMA TaskWithholds ==
    ASSUME TypeInv, NEW e \in Execution, TaskInv(e), Withheld(e), TaskMove(e),
           request' = request
    PROVE  Withheld(e)'
<1>1. records[e] \in RecordType /\ verdict[e] \in [state : TerminalStates \cup {"NONE"},
                                    validation : ValidationOutcomes \cup {"NONE"}]
  BY DEF TypeInv, TypeOK
<1>2. pc[e] \in {"validate", "commit"} => verdict[e].state \in TerminalStates
  BY DEF TaskInv
<1>3. pc[e] \in UnsavedPoints \cup OpenPoints => ~ frozen(e)
  BY DEF TaskInv
<1>4. ASSUME NEW k \in {"EXECUTION_CANCELLED", "EXECUTION_FAILED", TerminalKindOf(verdict[e].state)},
             NEW from, Says(e, from, "done", k)
      PROVE  Withheld(e)'
  BY <1>4 DEF Says, passes, keepsRecord, keepsVerdict, Withheld, UnsavedPoints, OpenPoints,
              JudgedPoints, frozen
<1> USE DEF Withheld, Writes, Says, Judges, Supervises, passes, keepsRecord, keepsStream,
            keepsVerdict, UnsavedPoints, OpenPoints, JudgedPoints, frozen, TerminalStates, RecordType
<1>5. CASE \/ Writes(e, "admit", "announceAdmitted", [records[e] EXCEPT !.state = "ADMITTED"])
           \/ Writes(e, "start", "announceStarted", [records[e] EXCEPT !.state = "RUNNING"])
           \/ Writes(e, "bindSession", "checkCancelled", [records[e] EXCEPT !.sessionKnown = TRUE])
  BY <1>1, <1>3, <1>5
<1>6. CASE \/ Says(e, "announceAdmitted", "planning", "EXECUTION_ADMITTED")
           \/ Says(e, "announceStarted", "execute", "EXECUTION_STARTED")
           \/ Writes(e, "planning", "bindSession", records[e])
           \/ Writes(e, "planning", "failRecord", records[e])
           \/ Writes(e, "checkCancelled", "commitCancelled", records[e])
           \/ Writes(e, "checkCancelled", "start", records[e])
           \/ Supervises(e, "execute", "executing")
           \/ Supervises(e, "execute", "failRecord")
           \/ Supervises(e, "executing", "executing")
  BY <1>6
<1>7. CASE \/ Writes(e, "commitCancelled", "announceCancelled",
                     [records[e] EXCEPT !.state = "CANCELLED", !.result = "null"])
           \/ Writes(e, "failRecord", "announceFailure",
                     [records[e] EXCEPT !.state = "FAILED", !.result = "null"])
  BY <1>1, <1>7
<1>8. ASSUME NEW judgement, Judges(e, "executing", "validate", judgement),
             judgement = [state |-> "COMPLETED", validation |-> "NONE"]
      PROVE  Withheld(e)'
  BY <1>8
<1>9. ASSUME NEW judgement, Judges(e, "executing", "commit", judgement),
             judgement.validation \in {"NONE", "NOT_REQUESTED"},
             request[e].schemaBound => judgement.state # "COMPLETED"
      PROVE  Withheld(e)'
  BY <1>9
<1>10. ASSUME NEW outcome \in {"VALID", "INVALID", "NOT_EVALUATED"},
              Judges(e, "validate", "commit",
                  [state      |-> IF outcome = "INVALID" THEN "FAILED" ELSE verdict[e].state,
                   validation |-> outcome])
       PROVE  Withheld(e)'
  BY <1>10
<1>11. CASE Writes(e, "commit", "seedEvidence", judged(e))
  BY <1>1, <1>2, <1>11 DEF judged
<1>12. CASE \/ Writes(e, "seedEvidence", "announceOutcome",
                      [records[e] EXCEPT !.evidence = @ \cup {"steps"}])
            \/ Writes(e, "seedEvidence", "validationEvidence",
                      [records[e] EXCEPT !.evidence = @ \cup {"steps"}])
            \/ Writes(e, "validationEvidence", "announceOutcome",
                      [records[e] EXCEPT !.evidence = @ \cup {"validation"}])
  BY <1>1, <1>12
<1> HIDE DEF Withheld, Writes, Says, Judges, Supervises, RecordType
<1>13. QED
  BY <1>4, <1>5, <1>6, <1>7, <1>8, <1>9, <1>10, <1>11, <1>12 DEF TaskMove

\* A submission's handler touches neither output nor evidence.
LEMMA HandlerServes ==
    ASSUME TypeInv, NEW e \in Execution, TaskInv(e), ServedInv(e), HandlerMove(e)
    PROVE  ServedInv(e)'
<1>1. /\ request \in [Execution -> Request \cup {NoRequest}] /\ events[e] \in Seq(EventKinds)
      /\ records[e] \in RecordType
  BY DEF TypeInv, TypeOK
<1>2. ~ terminated(events[e]) /\ pc[e] \in UnsavedPoints \cup {"accept"}
  BY DEF TaskInv, HandlerMove, Submits, Looks, Saves, Accepts, Writes, Says, passes,
         UnsavedPoints, OpenPoints
<1>3. records[e].validation = "NONE" /\ records[e].state \notin TerminalStates
  BY <1>2, OpenSaysNothing DEF ServedInv, OpenPoints
<1>4. mainStory(events[e]) = <<>>
  BY <1>2 DEF ServedInv, Storied
<1>5. CASE Submits(e) \/ Looks(e) \/ Saves(e)
  <2>1. /\ events'[e] = events[e] /\ pc'[e] \in UnsavedPoints \cup {"accept"}
        /\ records'[e] = records[e] \/ records'[e] = newRecord
    BY <1>5 DEF Submits, Looks, Saves, Writes, passes, keepsStream, UnsavedPoints
  <2>2. records'[e].validation = "NONE" /\ records'[e].state \notin TerminalStates
    BY <1>3, <2>1 DEF newRecord, NoRecord, TerminalStates
  <2>3. Withheld(e)'
    BY <2>1, <2>2 DEF Withheld, UnsavedPoints, JudgedPoints, frozen, TerminalStates
  <2>4. Storied(e)'
    BY <1>4, <2>1 DEF Storied, UnsavedPoints, JudgedPoints
  <2>5. EvidencePending(e)' /\ CompletionEvidenced(e)'
    BY <1>2, <2>1 DEF EvidencePending, CompletionEvidenced, terminated, TerminalKinds, UnsavedPoints
  <2>6. QED
    BY <2>3, <2>4, <2>5 DEF ServedInv
<1>6. CASE Accepts(e)
  <2>1. /\ events'[e] = appended(events[e], "EXECUTION_ACCEPTED") /\ pc'[e] = "admit"
        /\ records'[e] = records[e]
    BY <1>6 DEF Accepts, Says, passes, keepsRecord
  <2>2. Withheld(e)'
    BY <1>3, <2>1 DEF Withheld, UnsavedPoints, JudgedPoints, frozen, TerminalStates
  <2>3. "EXECUTION_ACCEPTED" \in EventKinds
    BY DEF EventKinds
  <2>4. mainStory(events'[e]) = Append(<<>>, "EXECUTION_ACCEPTED")
    BY <1>1, <1>4, <2>1, <2>3, StoryGrows
  <2>5. Append(<<>>, "EXECUTION_ACCEPTED") = Acceptance
    BY DEF Acceptance
  <2>6. Storied(e)'
    BY <2>1, <2>4, <2>5 DEF Storied, UnsavedPoints, JudgedPoints
  <2>7. ~ terminated(events'[e])
    BY <1>1, <1>2, <2>1, <2>3, TerminatedAppend DEF TerminalKinds
  <2>8. EvidencePending(e)' /\ CompletionEvidenced(e)'
    BY <2>1, <2>7 DEF EvidencePending, CompletionEvidenced, terminated, TerminalKinds
  <2>9. QED
    BY <2>2, <2>6, <2>8 DEF ServedInv
<1>7. QED
  BY <1>5, <1>6 DEF HandlerMove

\* The story goes on only with what the task announces.
LEMMA TaskTellsStory ==
    ASSUME TypeInv, NEW e \in Execution, TaskInv(e), Storied(e), TaskMove(e)
    PROVE  Storied(e)'
<1>1. /\ events[e] \in Seq(EventKinds)
      /\ pc[e] \in {"validate", "commit"} => verdict[e].state \in TerminalStates
  BY DEF TypeInv, TypeOK, TaskInv
<1>2. ASSUME NEW kind \in EventKinds \ {"CANCELLATION_REQUESTED"}, NEW from, NEW to,
             Says(e, from, to, kind)
      PROVE  mainStory(events'[e]) = Append(mainStory(events[e]), kind)
  BY <1>1, <1>2, StoryGrows DEF Says
<1>3. /\ {"EXECUTION_ADMITTED", "EXECUTION_STARTED"} \subseteq EventKinds \ {"CANCELLATION_REQUESTED"}
      /\ TerminalKinds \subseteq EventKinds \ {"CANCELLATION_REQUESTED"}
      /\ {"EXECUTION_CANCELLED", "EXECUTION_FAILED"} \subseteq TerminalKinds
      /\ TerminalKindOf(verdict[e].state) \in TerminalKinds
  BY DEF EventKinds, TerminalKinds, TerminalKindOf
<1>4. CASE Says(e, "announceAdmitted", "planning", "EXECUTION_ADMITTED")
  <2>1. mainStory(events'[e]) = Admission
    BY <1>2, <1>3, <1>4 DEF Storied, Says, passes, Admission
  <2>2. QED
    BY <1>4, <2>1 DEF Storied, Says, passes, UnsavedPoints, JudgedPoints
<1>5. CASE Says(e, "announceStarted", "execute", "EXECUTION_STARTED")
  <2>1. mainStory(events'[e]) = Beginning
    BY <1>2, <1>3, <1>5 DEF Storied, Says, passes, Beginning
  <2>2. QED
    BY <1>5, <2>1 DEF Storied, Says, passes, UnsavedPoints, JudgedPoints
<1>6. CASE Says(e, "announceCancelled", "done", "EXECUTION_CANCELLED")
  <2>1. mainStory(events'[e]) = Append(Admission, "EXECUTION_CANCELLED")
    BY <1>2, <1>3, <1>6 DEF Storied, Says, passes
  <2>2. QED
    BY <1>6, <2>1 DEF Storied, Says, passes, UnsavedPoints, JudgedPoints
<1>7. CASE Says(e, "announceOutcome", "done", TerminalKindOf(verdict[e].state))
  <2>1. mainStory(events'[e]) = Append(Beginning, TerminalKindOf(verdict[e].state))
    BY <1>2, <1>3, <1>7 DEF Storied, Says, passes, JudgedPoints
  <2>2. QED
    BY <1>3, <1>7, <2>1 DEF Storied, Says, passes, UnsavedPoints, JudgedPoints
<1>8. CASE Says(e, "announceFailure", "done", "EXECUTION_FAILED")
  <2>1. \/ mainStory(events'[e]) = Append(Admission, "EXECUTION_FAILED")
        \/ mainStory(events'[e]) = Append(Beginning, "EXECUTION_FAILED")
    BY <1>2, <1>3, <1>8 DEF Storied, Says, passes
  <2>2. QED
    BY <1>3, <1>8, <2>1 DEF Storied, Says, passes, UnsavedPoints, JudgedPoints
<1> USE DEF Storied, passes, UnsavedPoints, JudgedPoints
<1>9. ASSUME keepsStream(e),
             \/ \E from \in {"admit", "planning", "bindSession", "checkCancelled",
                              "commitCancelled", "start"} :
                    \/ from = "admit" /\ passes(e, from, "announceAdmitted")
                    \/ /\ from # "admit"
                       /\ \E to \in {"bindSession", "failRecord", "checkCancelled",
                                     "commitCancelled", "start", "announceCancelled",
                                     "announceStarted"} : passes(e, from, to)
             \/ \E from \in {"execute", "executing", "validate", "commit", "seedEvidence",
                              "validationEvidence"} :
                    \E to \in {"executing", "failRecord", "validate", "commit", "seedEvidence",
                               "validationEvidence", "announceOutcome"} : passes(e, from, to)
             \/ passes(e, "failRecord", "announceFailure")
      PROVE  Storied(e)'
  BY <1>9 DEF keepsStream
<1> HIDE DEF Storied, passes, UnsavedPoints, JudgedPoints
<1>10. QED
  BY <1>4, <1>5, <1>6, <1>7, <1>8, <1>9 DEF TaskMove, Writes, Judges, Supervises

\* The evidence is added before the outcome is announced, and announced last.
LEMMA TaskGivesEvidence ==
    ASSUME TypeInv, NEW e \in Execution, TaskInv(e), Withheld(e), EvidencePending(e), TaskMove(e),
           request' = request
    PROVE  EvidencePending(e)' /\ CompletionEvidenced(e)'
<1>1. events[e] \in Seq(EventKinds) /\ records[e] \in RecordType
  BY DEF TypeInv, TypeOK
<1>2. ~ terminated(events[e])
  BY DEF TaskInv, TaskMove, Writes, Says, Judges, Supervises, passes, UnsavedPoints,
         OpenPoints, SettledPoints
<1>3. \A i \in DOMAIN events[e] : events[e][i] # "EXECUTION_COMPLETED"
  BY <1>2 DEF terminated, TerminalKinds
<1>4. ASSUME NEW from, NEW to, NEW kind \in EventKinds, Says(e, from, to, kind),
             kind = "EXECUTION_COMPLETED" =>
                 /\ "steps" \in records[e].evidence
                 /\ request[e].schemaBound => "validation" \in records[e].evidence
      PROVE  CompletionEvidenced(e)'
  <2>1. \A i \in DOMAIN events'[e] :
            \/ i \in DOMAIN events[e] /\ events'[e][i] = events[e][i]
            \/ events'[e][i] = kind
    BY <1>1, <1>4 DEF Says, appended
  <2>2. QED
    BY <1>3, <1>4, <2>1 DEF CompletionEvidenced, Says, keepsRecord
<1>5. ASSUME keepsStream(e) PROVE CompletionEvidenced(e)'
  BY <1>3, <1>5 DEF CompletionEvidenced, keepsStream
<1>6. /\ "EXECUTION_ADMITTED" \in EventKinds /\ "EXECUTION_STARTED" \in EventKinds
      /\ "EXECUTION_CANCELLED" \in EventKinds /\ "EXECUTION_FAILED" \in EventKinds
      /\ TerminalKindOf(verdict[e].state) \in EventKinds
      /\ verdict[e].state # "COMPLETED" => TerminalKindOf(verdict[e].state) # "EXECUTION_COMPLETED"
  BY DEF EventKinds, TerminalKinds, TerminalKindOf
<1>7. ASSUME Says(e, "announceOutcome", "done", TerminalKindOf(verdict[e].state))
      PROVE  CompletionEvidenced(e)'
  <2>1. "steps" \in records[e].evidence
    BY <1>7 DEF EvidencePending, Says, passes
  <2>2. verdict[e].state = "COMPLETED" /\ request[e].schemaBound =>
            "validation" \in records[e].evidence
    BY <1>7 DEF EvidencePending, Withheld, Says, passes, JudgedPoints
  <2>3. QED
    BY <1>4, <1>6, <1>7, <2>1, <2>2
<1>8. CompletionEvidenced(e)'
  BY <1>4, <1>5, <1>6, <1>7 DEF TaskMove, Writes, Judges, Supervises
<1>9. EvidencePending(e)'
  <2> USE DEF EvidencePending, passes
  <2>1. ASSUME NEW from, NEW to, to \notin {"validationEvidence", "announceOutcome"},
               passes(e, from, to)
        PROVE  EvidencePending(e)'
    BY <2>1
  <2>2. CASE \/ /\ Writes(e, "seedEvidence", "announceOutcome",
                           [records[e] EXCEPT !.evidence = @ \cup {"steps"}])
                /\ verdict[e].validation \in {"NONE", "NOT_REQUESTED"}
             \/ Writes(e, "seedEvidence", "validationEvidence",
                       [records[e] EXCEPT !.evidence = @ \cup {"steps"}])
             \/ Writes(e, "validationEvidence", "announceOutcome",
                       [records[e] EXCEPT !.evidence = @ \cup {"validation"}])
    BY <1>1, <2>2 DEF Writes, keepsVerdict, RecordType
  <2> HIDE DEF EvidencePending, passes
  <2>3. QED
    BY <2>1, <2>2 DEF TaskMove, Writes, Says, Judges, Supervises
<1>10. QED
  BY <1>8, <1>9

\* A cancel request may come between any two steps of the task.
LEMMA CancelServes ==
    ASSUME TypeInv, NEW e \in Execution, TaskInv(e), ServedInv(e), CancelMove(e)
    PROVE  ServedInv(e)'
<1>1. /\ events[e] \in Seq(EventKinds) /\ records[e] \in RecordType
      /\ pc'[e] = pc[e] /\ verdict'[e] = verdict[e] /\ request'[e] = request[e]
  BY DEF TypeInv, TypeOK, CancelMove
<1>3. Withheld(e)' /\ EvidencePending(e)' /\ records'[e].evidence = records[e].evidence
  <2>1. CASE records'[e] = records[e]
    BY <1>1, <2>1 DEF ServedInv, Withheld, EvidencePending, frozen
  <2>2. CASE records'[e] = [records[e] EXCEPT !.state = "CANCELLING"] /\ pc[e] \in OpenPoints
    <3>1. /\ records'[e].state = "CANCELLING" /\ records'[e].validation = records[e].validation
          /\ records'[e].evidence = records[e].evidence
      BY <1>1, <2>2 DEF RecordType
    <3>2. records[e].validation = "NONE"
      BY <2>2 DEF ServedInv, Withheld
    <3>3. QED
      BY <1>1, <3>1, <3>2 DEF ServedInv, Withheld, EvidencePending, frozen, TerminalStates
  <2>3. QED
    BY <2>1, <2>2 DEF CancelMove
<1>4. Storied(e)' /\ CompletionEvidenced(e)'
  <2>1. CASE events'[e] = events[e]
    BY <1>1, <1>3, <2>1 DEF ServedInv, Storied, CompletionEvidenced
  <2>2. CASE events'[e] = appended(events[e], "CANCELLATION_REQUESTED")
    <3>1. "CANCELLATION_REQUESTED" \in EventKinds
      BY DEF EventKinds
    <3>2. mainStory(events'[e]) = mainStory(events[e])
      BY <1>1, <2>2, <3>1, StoryGrows
    <3>3. \A i \in DOMAIN events'[e] :
              \/ i \in DOMAIN events[e] /\ events'[e][i] = events[e][i]
              \/ events'[e][i] = "CANCELLATION_REQUESTED"
      BY <1>1, <2>2 DEF appended
    <3>4. Storied(e)'
      BY <1>1, <3>2 DEF ServedInv, Storied
    <3>5. CompletionEvidenced(e)'
      BY <1>1, <1>3, <3>3 DEF ServedInv, CompletionEvidenced
    <3>6. QED
      BY <3>4, <3>5
  <2>3. QED
    BY <2>1, <2>2 DEF CancelMove
<1>5. QED
  BY <1>3, <1>4 DEF ServedInv

\* A step of one execution leaves the requests of the others alone.
LEMMA RequestFrame ==
    ASSUME TypeInv, NEW e \in Execution, TaskInv(e), handler(e) \/ task(e),
           NEW f \in Execution, f # e
    PROVE  request'[f] = request[f]
<1>1. request \in [Execution -> Request \cup {NoRequest}]
  BY DEF TypeInv, TypeOK
<1>2. CASE handler(e)
  BY <1>1, <1>2, HandlerMoves DEF HandlerMove, Submits, Looks, Saves, Accepts
<1>3. CASE task(e)
  BY <1>3, TaskMoves
<1>4. QED
  BY <1>2, <1>3

ServedFramed(f) ==
    /\ pc'[f] = pc[f] /\ records'[f] = records[f] /\ events'[f] = events[f]
    /\ verdict'[f] = verdict[f] /\ request'[f] = request[f]

LEMMA ServedFrame ==
    ASSUME NEW f \in Execution, ServedInv(f), ServedFramed(f)
    PROVE  ServedInv(f)'
BY DEF ServedFramed, ServedInv, Withheld, Storied, EvidencePending, CompletionEvidenced, frozen

Served == Inductive /\ \A e \in Execution : ServedInv(e)

\* What is served stays in agreement with the stream, whoever steps.
LEMMA ServedHolds == Spec => []Served
<1>1. Init => Served
  <2> SUFFICES ASSUME Init PROVE Served
    OBVIOUS
  <2>1. Inductive
    BY InitInductive
  <2>2. ASSUME NEW e \in Execution PROVE ServedInv(e)
    <3>1. pc[e] = "idle" /\ records[e] = NoRecord /\ events[e] = <<>>
      BY DEF Init
    <3>2. mainStory(events[e]) = <<>>
      BY <3>1, EmptyStory
    <3>3. Withheld(e)
      BY <3>1 DEF Withheld, NoRecord, frozen, TerminalStates, JudgedPoints
    <3>4. Storied(e)
      BY <3>1, <3>2 DEF Storied, JudgedPoints
    <3>5. EvidencePending(e) /\ CompletionEvidenced(e)
      BY <3>1 DEF EvidencePending, CompletionEvidenced
    <3>6. QED
      BY <3>3, <3>4, <3>5 DEF ServedInv
  <2>3. QED
    BY <2>1, <2>2 DEF Served
<1>2. Served /\ [Next]_vars => Served'
  <2> SUFFICES ASSUME Served, [Next]_vars PROVE Served'
    OBVIOUS
  <2>1. Inductive' /\ TypeInv
    BY NextInductive DEF Served, Inductive
  <2>2. ASSUME NEW e \in Execution, executionStep(e), NEW f \in Execution PROVE ServedInv(f)'
    <3>1. (handler(e) \/ task(e)) /\ TaskInv(e) /\ ServedInv(e) /\ ServedInv(f)
      BY <2>2 DEF executionStep, Served, Inductive
    <3>2. CASE f # e
      <4>1. ServedFramed(f)
        BY <2>1, <3>1, <3>2, StepFrame, RequestFrame DEF ServedFramed
      <4>2. QED
        BY <3>1, <4>1, ServedFrame
    <3>3. CASE f = e /\ handler(e)
      <4>1. HandlerMove(e)
        BY <2>1, <3>1, <3>3, HandlerMoves
      <4>2. QED
        BY <2>1, <3>1, <3>3, <4>1, HandlerServes
    <3>4. CASE f = e /\ task(e)
      <4>1. TaskMove(e) /\ request' = request
        BY <2>1, <3>1, <3>4, TaskMoves
      <4>2. QED
        BY <2>1, <3>1, <3>4, <4>1, TaskWithholds, TaskTellsStory, TaskGivesEvidence
           DEF ServedInv
    <3>5. QED
      BY <3>1, <3>2, <3>3, <3>4
  <2>3. ASSUME NEW c \in CancelRequest, cancelRequestStep(c), NEW f \in Execution
        PROVE  ServedInv(f)'
    <3>1. CancelMove(f)
      BY <2>1, <2>3, CancelMoves DEF cancelRequestStep, Served, Inductive
    <3>2. QED
      BY <2>1, <3>1, CancelServes DEF Served, Inductive
  <2>4. ASSUME quiesce \/ UNCHANGED vars, NEW f \in Execution PROVE ServedInv(f)'
    <3>1. ServedFramed(f)
      BY <2>4 DEF quiesce, vars, ServedFramed
    <3>2. QED
      BY <3>1, ServedFrame DEF Served
  <2>5. QED
    BY <2>1, <2>2, <2>3, <2>4 DEF Next, Served
<1>3. QED
  BY <1>1, <1>2, PTL DEF Spec

\* An output that failed its schema is never served, a typed execution is
\* COMPLETED only after its output was looked at, and every terminal record has
\* a result: validation decides before the terminal update is written.
THEOREM InvalidOutputNeverServed == Spec => []InvalidOutputIsWithheld
<1>1. Served => InvalidOutputIsWithheld
  BY DEF Served, ServedInv, Withheld, InvalidOutputIsWithheld
<1>2. QED
  BY <1>1, ServedHolds, PTL

\* An append, by its length and its elements.
LEMMA Appends ==
    ASSUME NEW S, NEW s \in Seq(S), NEW x \in S, NEW n \in Nat, Len(s) = n,
           NEW t, t = Append(s, x)
    PROVE  t \in Seq(S) /\ Len(t) = n + 1 /\ t[n + 1] = x /\ \A i \in 1 .. n : t[i] = s[i]
BY AppendProperties

\* The stories' parts, event by event.
LEMMA Parts ==
    /\ Acceptance \in Seq(EventKinds) /\ Len(Acceptance) = 1
    /\ Admission \in Seq(EventKinds) /\ Len(Admission) = 2
    /\ Beginning \in Seq(EventKinds) /\ Len(Beginning) = 3
    /\ Acceptance[1] = "EXECUTION_ACCEPTED"
    /\ Admission[1] = "EXECUTION_ACCEPTED" /\ Admission[2] = "EXECUTION_ADMITTED"
    /\ Beginning[1] = "EXECUTION_ACCEPTED" /\ Beginning[2] = "EXECUTION_ADMITTED"
    /\ Beginning[3] = "EXECUTION_STARTED"
<1> DEFINE admitted == "EXECUTION_ADMITTED"
           started == "EXECUTION_STARTED"
<1>1. "EXECUTION_ACCEPTED" \in EventKinds /\ admitted \in EventKinds /\ started \in EventKinds
  BY DEF EventKinds
<1>2. /\ Acceptance \in Seq(EventKinds) /\ Len(Acceptance) = 1
      /\ Acceptance[1] = "EXECUTION_ACCEPTED"
  BY <1>1 DEF Acceptance
<1>3. Admission = Append(Acceptance, admitted) /\ Beginning = Append(Admission, started)
  BY DEF Admission, Beginning
<1> HIDE DEF admitted, started
<1>4. /\ Admission \in Seq(EventKinds) /\ Len(Admission) = 1 + 1 /\ Admission[1 + 1] = admitted
      /\ \A i \in 1 .. 1 : Admission[i] = Acceptance[i]
  BY <1>1, <1>2, <1>3, Appends
<1>5. Admission \in Seq(EventKinds) /\ Len(Admission) = 2
  BY <1>4
<1>6. /\ Beginning \in Seq(EventKinds) /\ Len(Beginning) = 2 + 1 /\ Beginning[2 + 1] = started
      /\ \A i \in 1 .. 2 : Beginning[i] = Admission[i]
  BY <1>1, <1>3, <1>5, Appends
<1>7. QED
  BY <1>2, <1>4, <1>6 DEF admitted, started

\* A sequence that agrees with a story as far as it goes begins it.
LEMMA Begins ==
    ASSUME NEW story \in Seq(EventKinds), NEW told \in Seq(EventKinds), Len(told) <= Len(story),
           \A i \in 1 .. Len(told) : told[i] = story[i]
    PROVE  \E n \in 0 .. Len(story) : told = SubSeq(story, 1, n)
<1> DEFINE n == Len(told)
           part == SubSeq(story, 1, n)
<1>1. n \in Nat /\ Len(story) \in Nat /\ n \in 0 .. Len(story)
  OBVIOUS
<1>2. CASE n = 0
  <2>1. told = <<>>
    BY <1>2, EmptySeq
  <2>2. SubSeq(story, 1, 0) = <<>>
    BY SubSeqEmpty
  <2>3. QED
    BY <1>1, <1>2, <2>1, <2>2
<1>3. CASE n # 0
  <2>1. /\ 1 \in 1 .. Len(story) + 1 /\ n \in 0 .. Len(story) /\ n \in 1 .. Len(story) /\ n - 1 + 1 = n
        /\ \A i \in 1 .. n : 1 + i - 1 = i
    BY <1>1, <1>3
  <2> HIDE DEF n
  <2>2. /\ part \in Seq(EventKinds) /\ Len(part) = n
        /\ \A i \in 1 .. n : part[i] = story[i]
    BY <2>1, SubSeqProperties
  <2> HIDE DEF part
  <2>3. told = part
    BY <2>2, SeqEqual DEF n
  <2>4. QED
    BY <1>1, <2>3 DEF part, n
<1>4. QED
  BY <1>2, <1>3

Stories ==
    {<<"EXECUTION_ACCEPTED", "EXECUTION_ADMITTED", k>> :
         k \in {"EXECUTION_FAILED", "EXECUTION_CANCELLED"}}
    \cup
    {<<"EXECUTION_ACCEPTED", "EXECUTION_ADMITTED", "EXECUTION_STARTED", k>> : k \in TerminalKinds}

BeginsStory(told) ==
    \E story \in Stories : \E n \in 0 .. Len(story) : told = SubSeq(story, 1, n)

\* Everything Storied lets a stream tell is the beginning of a story.
LEMMA BeginningsOfStories ==
    /\ \A k \in TerminalKinds :
           /\ BeginsStory(<<>>) /\ BeginsStory(Acceptance) /\ BeginsStory(Admission)
           /\ BeginsStory(Beginning) /\ BeginsStory(Append(Beginning, k))
    /\ \A k \in {"EXECUTION_FAILED", "EXECUTION_CANCELLED"} : BeginsStory(Append(Admission, k))
<1>1. ASSUME NEW story \in Stories, story \in Seq(EventKinds), NEW told \in Seq(EventKinds),
             NEW m \in Nat, Len(told) = m, m <= Len(story), \A i \in 1 .. m : told[i] = story[i]
      PROVE  BeginsStory(told)
  BY <1>1, Begins DEF BeginsStory
<1>2. ASSUME NEW k \in TerminalKinds
      PROVE  /\ BeginsStory(<<>>) /\ BeginsStory(Acceptance) /\ BeginsStory(Admission)
             /\ BeginsStory(Beginning) /\ BeginsStory(Append(Beginning, k))
  <2> DEFINE story == <<"EXECUTION_ACCEPTED", "EXECUTION_ADMITTED", "EXECUTION_STARTED", k>>
             whole == Append(Beginning, k)
             nothing == <<>>
  <2>1. story \in Stories /\ whole = Append(Beginning, k) /\ k \in EventKinds
    BY DEF Stories, EventKinds
  <2>2. /\ story \in Seq(EventKinds) /\ Len(story) = 4
        /\ story[1] = "EXECUTION_ACCEPTED" /\ story[2] = "EXECUTION_ADMITTED"
        /\ story[3] = "EXECUTION_STARTED" /\ story[4] = k
    BY DEF EventKinds
  <2>3. nothing \in Seq(EventKinds) /\ Len(nothing) = 0
    OBVIOUS
  <2> HIDE DEF story, whole, nothing
  <2>4. /\ whole \in Seq(EventKinds) /\ Len(whole) = 3 + 1 /\ whole[3 + 1] = k
        /\ \A i \in 1 .. 3 : whole[i] = Beginning[i]
    BY <2>1, Parts, Appends
  <2>5. BeginsStory(nothing)
    <3>1. 0 \in Nat /\ 0 <= Len(story) /\ \A i \in 1 .. 0 : nothing[i] = story[i]
      BY <2>2
    <3>2. QED
      BY <1>1, <2>1, <2>2, <2>3, <3>1, Zenon
  <2>6. BeginsStory(Acceptance)
    <3>1. 1 \in Nat /\ 1 <= Len(story) /\ \A i \in 1 .. 1 : Acceptance[i] = story[i]
      BY <2>2, Parts
    <3>2. QED
      BY <1>1, <2>1, <2>2, <3>1, Parts, Zenon
  <2>7. BeginsStory(Admission)
    <3>1. 2 \in Nat /\ 2 <= Len(story) /\ \A i \in 1 .. 2 : Admission[i] = story[i]
      BY <2>2, Parts
    <3>2. QED
      BY <1>1, <2>1, <2>2, <3>1, Parts, Zenon
  <2>8. BeginsStory(Beginning)
    <3>1. 3 \in Nat /\ 3 <= Len(story) /\ \A i \in 1 .. 3 : Beginning[i] = story[i]
      BY <2>2, Parts
    <3>2. QED
      BY <1>1, <2>1, <2>2, <3>1, Parts, Zenon
  <2>9. BeginsStory(whole)
    <3>1. /\ 4 \in Nat /\ 4 <= Len(story) /\ Len(whole) = 4
          /\ \A i \in 1 .. 4 : whole[i] = story[i]
      BY <2>2, <2>4, Parts
    <3>2. QED
      BY <1>1, <2>1, <2>2, <2>4, <3>1, Zenon
  <2>10. QED
    BY <2>5, <2>6, <2>7, <2>8, <2>9 DEF whole, nothing
<1>3. ASSUME NEW k \in {"EXECUTION_FAILED", "EXECUTION_CANCELLED"}
      PROVE  BeginsStory(Append(Admission, k))
  <2> DEFINE story == <<"EXECUTION_ACCEPTED", "EXECUTION_ADMITTED", k>>
             whole == Append(Admission, k)
  <2>1. story \in Stories /\ whole = Append(Admission, k) /\ k \in EventKinds
    BY DEF Stories, EventKinds, TerminalKinds
  <2>2. /\ story \in Seq(EventKinds) /\ Len(story) = 3
        /\ story[1] = "EXECUTION_ACCEPTED" /\ story[2] = "EXECUTION_ADMITTED" /\ story[3] = k
    BY DEF EventKinds, TerminalKinds
  <2> HIDE DEF story, whole
  <2>3. /\ whole \in Seq(EventKinds) /\ Len(whole) = 2 + 1 /\ whole[2 + 1] = k
        /\ \A i \in 1 .. 2 : whole[i] = Admission[i]
    BY <2>1, Parts, Appends
  <2>4. /\ 3 \in Nat /\ 3 <= Len(story) /\ Len(whole) = 3
        /\ \A i \in 1 .. 3 : whole[i] = story[i]
    BY <2>2, <2>3, Parts
  <2>5. BeginsStory(whole)
    BY <1>1, <2>1, <2>2, <2>3, <2>4, Zenon
  <2>6. QED
    BY <2>5 DEF whole
<1>4. QED
  BY <1>2, <1>3

\* Cancellation requests aside, a stream is the beginning of one story, whatever
\* interleaves with the task that tells it, and a completion is announced after
\* its evidence is in the record.
THEOREM StreamsTellOneStory == Spec => []StreamTellsOneStory
<1>1. ASSUME Served, NEW e \in Execution PROVE BeginsStory(mainStory(events[e]))
  <2>1. Storied(e) /\ pc[e] \in HandlerPoints \cup TaskPoints
    BY <1>1 DEF Served, ServedInv, Inductive, TypeInv, TypeOK
  <2>2. "EXECUTION_FAILED" \in TerminalKinds
    BY DEF TerminalKinds
  <2>3. QED
    BY <2>1, <2>2, BeginningsOfStories
       DEF Storied, HandlerPoints, TaskPoints, UnsavedPoints, JudgedPoints
<1>2. Served => StreamTellsOneStory
  BY <1>1 DEF BeginsStory, Stories, Served, ServedInv, CompletionEvidenced, StreamTellsOneStory
<1>3. QED
  BY <1>2, ServedHolds, PTL

-----------------------------------------------------------------------------
(* The in-memory build: one actor runs at a time.                           *)

\* An actor that does not rest holds the event loop.
OneAtATime == \A a \in Actor : ~ rests(a) => loop = a

\* A step of an actor whose turn it is finds all others at rest, and keeps
\* them so.
LEMMA OthersRest ==
    ASSUME StoreSuspends = FALSE, OneAtATime, NEW a \in Actor, mayRun(a)
    PROVE  \A b \in Actor : b # a => rests(b)
BY ActorAssumption DEF OneAtATime, mayRun

\* Who does not rest after a step keeps the event loop.
LEMMA TurnsTaken ==
    ASSUME StoreSuspends = FALSE, NEW a \in Actor, yields(a),
           \A b \in Actor : b # a => rests(b)'
    PROVE  OneAtATime'
BY DEF OneAtATime, yields

LEMMA ExecutionRests ==
    ASSUME NEW f \in Execution
    PROVE  rests(f) <=> \/ pc[f] \in {"idle", "refused", "conflict", "replayed", "planning", "done"}
                        \/ pc[f] = "executing" /\ session[f].invoking
BY ActorAssumption DEF rests

LEMMA RequestRests ==
    ASSUME NEW c \in CancelRequest
    PROVE  rests(c) <=> cancels[c].pc \in {"idle", "accepted", "refused", "failed"}
BY DEF rests

\* Where the handler or the task stands determines the record's state, unless
\* a cancellation is pending.
BeforeSession ==
    UnsavedPoints \cup {"accept", "admit", "announceAdmitted", "planning", "bindSession"}

BeforeSupervision ==
    BeforeSession \cup {"checkCancelled", "commitCancelled", "start", "announceStarted", "execute"}

Phased(e) ==
    /\ pc[e] \in {"accept", "admit"} => records[e].state = "QUEUED"
    /\ pc[e] \in {"announceAdmitted", "start"} => records[e].state = "ADMITTED"
    /\ pc[e] \in {"planning", "bindSession", "checkCancelled"} =>
           records[e].state \in {"ADMITTED", "CANCELLING"}
    /\ pc[e] = "commitCancelled" => records[e].state = "CANCELLING"
    /\ pc[e] \in {"announceStarted", "execute"} => records[e].state = "RUNNING"
    /\ pc[e] \in {"executing", "validate", "commit"} =>
           records[e].state \in {"RUNNING", "CANCELLING"}
    /\ pc[e] = "failRecord" => records[e].state \in {"ADMITTED", "RUNNING", "CANCELLING"}
    /\ pc[e] \in BeforeSession => ~ records[e].sessionKnown
    /\ pc[e] \in {"checkCancelled", "start", "announceStarted", "execute", "executing"} =>
           records[e].sessionKnown
    /\ pc[e] \in BeforeSupervision => session[e].state = "NONE"
    /\ pc[e] \notin UnsavedPoints => exists(e)

\* The phases of a record under the steps of its handler and of its task.
LEMMA HandlerPhases ==
    ASSUME TypeInv, NEW e \in Execution, Phased(e), HandlerMove(e), session' = session
    PROVE  Phased(e)'
<1> USE DEF Phased, BeforeSession, BeforeSupervision, UnsavedPoints, passes, keepsRecord
<1>1. CASE Submits(e) \/ Looks(e)
  BY <1>1 DEF Submits, Looks, Writes
<1>2. CASE Saves(e)
  BY <1>2 DEF Saves, Writes, newRecord, NoRecord
<1>3. CASE Accepts(e)
  BY <1>3 DEF Accepts, Says
<1>4. QED
  BY <1>1, <1>2, <1>3 DEF HandlerMove

LEMMA TaskPhases ==
    ASSUME TypeInv, NEW e \in Execution, TaskInv(e), Phased(e), TaskMove(e)
    PROVE  Phased(e)'
<1>1. records[e] \in RecordType
  BY DEF TypeInv, TypeOK
<1>2. pc[e] = "commit" => verdict[e].state \in TerminalStates
  BY DEF TaskInv
<1> USE DEF Phased, BeforeSession, BeforeSupervision, UnsavedPoints, Writes, Says, Judges,
            Supervises, passes, keepsRecord, keepsSession, RecordType, TerminalStates
<1>3. CASE \/ Writes(e, "admit", "announceAdmitted", [records[e] EXCEPT !.state = "ADMITTED"])
           \/ Writes(e, "bindSession", "checkCancelled", [records[e] EXCEPT !.sessionKnown = TRUE])
           \/ Writes(e, "start", "announceStarted", [records[e] EXCEPT !.state = "RUNNING"])
           \/ Writes(e, "commitCancelled", "announceCancelled",
                     [records[e] EXCEPT !.state = "CANCELLED", !.result = "null"])
           \/ Writes(e, "failRecord", "announceFailure",
                     [records[e] EXCEPT !.state = "FAILED", !.result = "null"])
  BY <1>1, <1>3
<1>4. CASE \/ Says(e, "announceAdmitted", "planning", "EXECUTION_ADMITTED")
           \/ Says(e, "announceStarted", "execute", "EXECUTION_STARTED")
           \/ Says(e, "announceCancelled", "done", "EXECUTION_CANCELLED")
           \/ Says(e, "announceOutcome", "done", TerminalKindOf(verdict[e].state))
           \/ Says(e, "announceFailure", "done", "EXECUTION_FAILED")
           \/ Writes(e, "planning", "bindSession", records[e])
           \/ Writes(e, "planning", "failRecord", records[e])
  BY <1>4
<1>5. CASE \/ /\ Writes(e, "checkCancelled", "commitCancelled", records[e])
              /\ records[e].state = "CANCELLING"
           \/ /\ Writes(e, "checkCancelled", "start", records[e])
              /\ records[e].state # "CANCELLING"
  BY <1>5
<1>6. CASE \/ Supervises(e, "execute", "executing")
           \/ Supervises(e, "execute", "failRecord")
           \/ Supervises(e, "executing", "executing")
  BY <1>6
<1>7. ASSUME NEW judgement, \/ Judges(e, "executing", "validate", judgement)
                            \/ Judges(e, "executing", "commit", judgement)
                            \/ Judges(e, "validate", "commit", judgement)
      PROVE  Phased(e)'
  BY <1>7
<1>8. CASE Writes(e, "commit", "seedEvidence", judged(e))
  BY <1>1, <1>2, <1>8 DEF judged
<1>9. CASE \/ Writes(e, "seedEvidence", "announceOutcome",
                     [records[e] EXCEPT !.evidence = @ \cup {"steps"}])
           \/ Writes(e, "seedEvidence", "validationEvidence",
                     [records[e] EXCEPT !.evidence = @ \cup {"steps"}])
           \/ Writes(e, "validationEvidence", "announceOutcome",
                     [records[e] EXCEPT !.evidence = @ \cup {"validation"}])
  BY <1>1, <1>9
<1>10. QED
  BY <1>3, <1>4, <1>5, <1>6, <1>7, <1>8, <1>9 DEF TaskMove

-----------------------------------------------------------------------------
(* A cancellation, from the record to the supervisor and to the stream.     *)

Requested(e) == \E j \in DOMAIN events[e] : events[e][j] = "CANCELLATION_REQUESTED"

RequestedFirst(e) ==
    \A i \in DOMAIN events[e] : events[e][i] = "EXECUTION_CANCELLED" =>
        \E j \in 1 .. i : events[e][j] = "CANCELLATION_REQUESTED"

LEMMA RequestsStay ==
    ASSUME NEW e \in Execution, events[e] \in Seq(EventKinds), NEW kind,
           events'[e] = appended(events[e], kind), kind \in EventKinds
    PROVE  /\ Requested(e) \/ kind = "CANCELLATION_REQUESTED" => Requested(e)'
           /\ RequestedFirst(e) /\ (kind = "EXECUTION_CANCELLED" => Requested(e))
                  => RequestedFirst(e)'
<1> DEFINE log == events[e]
           longer == events'[e]
           n == Len(log)
<1>1. /\ n \in Nat /\ Len(longer) = n + 1 /\ DOMAIN log = 1 .. n /\ DOMAIN longer = 1 .. n + 1
      /\ \A i \in 1 .. n : longer[i] = log[i]
      /\ longer[n + 1] = kind
  BY DEF appended
<1>2. Requested(e) \/ kind = "CANCELLATION_REQUESTED" => Requested(e)'
  <2> HIDE DEF log, longer, n
  <2>1. (\E j \in 1 .. n : log[j] = "CANCELLATION_REQUESTED") \/ kind = "CANCELLATION_REQUESTED"
            => \E j \in 1 .. n + 1 : longer[j] = "CANCELLATION_REQUESTED"
    BY <1>1
  <2>2. QED
    BY <1>1, <2>1 DEF Requested, log, longer
<1>3. ASSUME RequestedFirst(e), kind = "EXECUTION_CANCELLED" => Requested(e)
      PROVE  RequestedFirst(e)'
  <2>1. /\ \A i \in 1 .. n : log[i] = "EXECUTION_CANCELLED" =>
               \E j \in 1 .. i : log[j] = "CANCELLATION_REQUESTED"
        /\ kind = "EXECUTION_CANCELLED" => \E j \in 1 .. n : log[j] = "CANCELLATION_REQUESTED"
    BY <1>1, <1>3 DEF RequestedFirst, Requested
  <2> HIDE DEF log, longer, n
  <2>2. ASSUME NEW i \in 1 .. n + 1, longer[i] = "EXECUTION_CANCELLED"
        PROVE  \E j \in 1 .. i : longer[j] = "CANCELLATION_REQUESTED"
    <3>1. CASE i = n + 1
      <4>1. PICK j \in 1 .. n : log[j] = "CANCELLATION_REQUESTED"
        BY <1>1, <2>1, <2>2, <3>1
      <4>2. j \in 1 .. i /\ longer[j] = "CANCELLATION_REQUESTED"
        BY <1>1, <3>1, <4>1
      <4>3. QED
        BY <4>2
    <3>2. CASE i # n + 1
      <4>1. i \in 1 .. n /\ log[i] = "EXECUTION_CANCELLED"
        BY <1>1, <2>2, <3>2
      <4>2. PICK j \in 1 .. i : log[j] = "CANCELLATION_REQUESTED"
        BY <2>1, <4>1
      <4>3. j \in 1 .. n
        BY <1>1, <4>1, <4>2
      <4>4. QED
        BY <1>1, <4>2, <4>3
    <3>3. QED
      BY <3>1, <3>2
  <2>3. QED
    BY <1>1, <2>2 DEF RequestedFirst, log, longer
<1>4. QED
  BY <1>2, <1>3

\* A stream that tells of a request goes on telling of it.
LEMMA MovesKeepRequests ==
    ASSUME TypeInv, NEW e \in Execution, HandlerMove(e) \/ TaskMove(e), Requested(e)
    PROVE  Requested(e)'
<1>1. events[e] \in Seq(EventKinds)
  BY DEF TypeInv, TypeOK
<1>2. CASE events'[e] = events[e]
  BY <1>2 DEF Requested
<1>3. ASSUME NEW kind \in EventKinds, events'[e] = appended(events[e], kind)
      PROVE  Requested(e)'
  BY <1>1, <1>3, RequestsStay
<1>4. /\ "EXECUTION_ADMITTED" \in EventKinds /\ "EXECUTION_STARTED" \in EventKinds
      /\ "EXECUTION_CANCELLED" \in EventKinds /\ "EXECUTION_FAILED" \in EventKinds
      /\ "EXECUTION_ACCEPTED" \in EventKinds
      /\ TerminalKindOf(verdict[e].state) \in EventKinds
  BY DEF EventKinds, TerminalKinds, TerminalKindOf
<1>5. CASE HandlerMove(e)
  BY <1>2, <1>3, <1>4, <1>5 DEF HandlerMove, Submits, Looks, Saves, Accepts, Writes, Says, keepsStream
<1>6. CASE TaskMove(e)
  BY <1>2, <1>3, <1>4, <1>6 DEF TaskMove, Writes, Says, Judges, Supervises, keepsStream
<1>7. QED
  BY <1>5, <1>6

\* From the call of the supervisor on.
SupervisedPoints ==
    {"executing", "validate", "commit", "seedEvidence", "validationEvidence",
     "announceOutcome", "done"}

\* Some cancel request has marked the record, and has still to append.
announcing(e) == \E c \in CancelRequest : cancels[c].pc = "announce" /\ cancels[c].target = e

\* Some cancel request has marked the record, and has still to signal.
signalling(e) ==
    \E c \in CancelRequest : cancels[c].pc \in {"announce", "signal"} /\ cancels[c].target = e

Marked(e) ==
    /\ e \in cancelled => Requested(e) /\ pc[e] \in SupervisedPoints
    /\ e \in cancelled /\ pc[e] \in {"executing", "validate", "commit"} =>
           records[e].state = "CANCELLING"
    /\ session[e].state = "CANCELLED" => e \in cancelled
    /\ verdict[e].state = "CANCELLED" => e \in cancelled
    /\ records[e].state = "CANCELLING" => Requested(e) \/ announcing(e)
    /\ records[e].state = "CANCELLED" => Requested(e)
    /\ pc[e] = "executing" /\ records[e].state = "CANCELLING" =>
           e \in cancelled \/ signalling(e)
    /\ RequestedFirst(e)

\* While every cancel request rests, none is about to append or to signal.
LEMMA RequestsRest ==
    ASSUME NEW e \in Execution, \A c \in CancelRequest : rests(c)
    PROVE  ~ announcing(e) /\ ~ signalling(e)
BY RequestRests DEF announcing, signalling

\* The marks of a cancellation under the steps of the handler and of the task.
LEMMA HandlerMarks ==
    ASSUME TypeInv, NEW e \in Execution, TaskInv(e), Phased(e), Marked(e), HandlerMove(e),
           session' = session, cancelled' = cancelled, cancels' = cancels
    PROVE  Marked(e)'
<1>1. pc[e] \in UnsavedPoints \cup {"accept"} /\ events[e] \in Seq(EventKinds)
  BY DEF HandlerMove, Submits, Looks, Saves, Accepts, Writes, Says, passes, UnsavedPoints,
         TypeInv, TypeOK
<1>2. e \notin cancelled /\ records[e].state \notin {"CANCELLING", "CANCELLED"}
  BY <1>1 DEF Marked, SupervisedPoints, TaskInv, Phased, UnsavedPoints
<1>3. /\ verdict'[e] = verdict[e] /\ pc'[e] # "executing"
      /\ records'[e].state \notin {"CANCELLING", "CANCELLED"}
  BY <1>2 DEF HandlerMove, Submits, Looks, Saves, Accepts, Writes, Says, passes, keepsRecord,
              keepsVerdict, newRecord, NoRecord
<1>4. RequestedFirst(e)'
  <2>1. CASE events'[e] = events[e]
    BY <2>1 DEF Marked, RequestedFirst
  <2>2. CASE events'[e] = appended(events[e], "EXECUTION_ACCEPTED")
    <3>1. "EXECUTION_ACCEPTED" \in EventKinds
      BY DEF EventKinds
    <3>2. QED
      BY <1>1, <2>2, <3>1, RequestsStay DEF Marked
  <2>3. QED
    BY <2>1, <2>2
       DEF HandlerMove, Submits, Looks, Saves, Accepts, Writes, Says, keepsStream
<1>5. QED
  BY <1>2, <1>3, <1>4 DEF Marked

LEMMA TaskMarks ==
    ASSUME TypeInv, NEW e \in Execution, TaskInv(e), Phased(e), Marked(e), TaskMove(e),
           cancelled' = cancelled, cancels' = cancels, ~ announcing(e), ~ signalling(e)
    PROVE  Marked(e)'
<1>1. /\ records[e] \in RecordType /\ events[e] \in Seq(EventKinds)
      /\ ~ announcing(e)' /\ ~ signalling(e)'
  BY DEF TypeInv, TypeOK, announcing, signalling
<1>2. Requested(e) => Requested(e)'
  BY MovesKeepRequests
<1>3. RequestedFirst(e)'
  <2>1. CASE events'[e] = events[e]
    BY <2>1 DEF Marked, RequestedFirst
  <2>2. ASSUME NEW kind \in EventKinds, events'[e] = appended(events[e], kind),
               kind = "EXECUTION_CANCELLED" => Requested(e)
        PROVE  RequestedFirst(e)'
    BY <1>1, <2>2, RequestsStay DEF Marked
  <2>3. CASE \/ Says(e, "announceAdmitted", "planning", "EXECUTION_ADMITTED")
             \/ Says(e, "announceStarted", "execute", "EXECUTION_STARTED")
             \/ Says(e, "announceFailure", "done", "EXECUTION_FAILED")
    BY <2>2, <2>3 DEF Says, EventKinds, TerminalKinds
  <2>4. CASE Says(e, "announceCancelled", "done", "EXECUTION_CANCELLED")
    <3>1. Requested(e)
      BY <2>4 DEF Says, passes, TaskInv, SettledPoints, pendingOutcome, Marked
    <3>2. QED
      BY <2>2, <2>4, <3>1 DEF Says, EventKinds, TerminalKinds
  <2>5. CASE Says(e, "announceOutcome", "done", TerminalKindOf(verdict[e].state))
    <3>1. TerminalKindOf(verdict[e].state) = "EXECUTION_CANCELLED" => Requested(e)
      BY DEF TerminalKindOf, Marked
    <3>2. TerminalKindOf(verdict[e].state) \in EventKinds
      BY DEF TerminalKindOf, EventKinds, TerminalKinds
    <3>3. QED
      BY <2>2, <2>5, <3>1, <3>2 DEF Says
  <2>6. QED
    BY <2>1, <2>3, <2>4, <2>5 DEF TaskMove, Writes, Judges, Supervises, keepsStream
<1> USE DEF SupervisedPoints, passes, keepsRecord, keepsStream, keepsVerdict, keepsSession
<1>4. ASSUME NEW from, NEW to, NEW kind, Says(e, from, to, kind), to # "executing",
             e \in cancelled => from = "announceOutcome" /\ to = "done"
      PROVE  Marked(e)'
  BY <1>1, <1>2, <1>3, <1>4 DEF Marked, Says
<1>5. ASSUME NEW from, NEW to, NEW record, Writes(e, from, to, record), to # "executing",
             record.state # "CANCELLING" \/ record.state = records[e].state,
             record.state = "CANCELLED" => Requested(e),
             e \in cancelled => to \in {"seedEvidence", "validationEvidence", "announceOutcome"}
      PROVE  Marked(e)'
  BY <1>1, <1>2, <1>3, <1>5 DEF Marked, Writes
<1>6. ASSUME NEW from, from \notin SupervisedPoints, pc[e] = from PROVE e \notin cancelled
  BY <1>6 DEF Marked
<1>7. CASE \/ Says(e, "announceAdmitted", "planning", "EXECUTION_ADMITTED")
           \/ Says(e, "announceStarted", "execute", "EXECUTION_STARTED")
           \/ Says(e, "announceCancelled", "done", "EXECUTION_CANCELLED")
           \/ Says(e, "announceOutcome", "done", TerminalKindOf(verdict[e].state))
           \/ Says(e, "announceFailure", "done", "EXECUTION_FAILED")
  BY <1>4, <1>6, <1>7 DEF Says
<1>8. CASE \/ Writes(e, "admit", "announceAdmitted", [records[e] EXCEPT !.state = "ADMITTED"])
           \/ Writes(e, "bindSession", "checkCancelled", [records[e] EXCEPT !.sessionKnown = TRUE])
           \/ Writes(e, "start", "announceStarted", [records[e] EXCEPT !.state = "RUNNING"])
           \/ Writes(e, "failRecord", "announceFailure",
                     [records[e] EXCEPT !.state = "FAILED", !.result = "null"])
  <2>1. ASSUME NEW from \in {"admit", "bindSession", "start", "failRecord"},
               NEW to \in {"announceAdmitted", "checkCancelled", "announceStarted",
                           "announceFailure"},
               NEW record, Writes(e, from, to, record),
               record.state \in {"ADMITTED", "RUNNING", "FAILED", records[e].state}
        PROVE  Marked(e)'
    <3>1. e \notin cancelled /\ (records[e].state = "CANCELLED" => Requested(e))
      BY <1>6, <2>1 DEF Writes, Marked
    <3>2. QED
      BY <1>5, <2>1, <3>1
  <2>2. /\ [records[e] EXCEPT !.state = "ADMITTED"].state = "ADMITTED"
        /\ [records[e] EXCEPT !.sessionKnown = TRUE].state = records[e].state
        /\ [records[e] EXCEPT !.state = "RUNNING"].state = "RUNNING"
        /\ [records[e] EXCEPT !.state = "FAILED", !.result = "null"].state = "FAILED"
    BY <1>1 DEF RecordType
  <2>3. QED
    BY <1>8, <2>1, <2>2
<1>9. CASE \/ Writes(e, "planning", "bindSession", records[e])
           \/ Writes(e, "planning", "failRecord", records[e])
           \/ Writes(e, "checkCancelled", "commitCancelled", records[e])
           \/ Writes(e, "checkCancelled", "start", records[e])
  <2>1. PICK from \in {"planning", "checkCancelled"},
             to \in {"bindSession", "failRecord", "commitCancelled", "start"} :
                 Writes(e, from, to, records[e])
    BY <1>9
  <2>2. e \notin cancelled /\ (records[e].state = "CANCELLED" => Requested(e))
    BY <1>6, <2>1 DEF Writes, Marked
  <2>3. QED
    BY <1>5, <2>1, <2>2
<1>10. CASE Writes(e, "commitCancelled", "announceCancelled",
                   [records[e] EXCEPT !.state = "CANCELLED", !.result = "null"])
  <2>1. e \notin cancelled /\ Requested(e)
    BY <1>6, <1>10 DEF Writes, Phased, Marked
  <2>2. [records[e] EXCEPT !.state = "CANCELLED", !.result = "null"].state = "CANCELLED"
    BY <1>1 DEF RecordType
  <2>3. QED
    BY <1>5, <1>10, <2>1, <2>2
<1>11. CASE Writes(e, "commit", "seedEvidence", judged(e))
  <2>1. /\ judged(e).state = verdict[e].state /\ verdict[e].state \in TerminalStates
        /\ verdict[e].state = "CANCELLED" => Requested(e)
    BY <1>1, <1>11 DEF judged, RecordType, TaskInv, Writes, Marked
  <2>2. QED
    BY <1>5, <1>11, <2>1 DEF TerminalStates
<1>12. CASE \/ Writes(e, "seedEvidence", "announceOutcome",
                      [records[e] EXCEPT !.evidence = @ \cup {"steps"}])
            \/ Writes(e, "seedEvidence", "validationEvidence",
                      [records[e] EXCEPT !.evidence = @ \cup {"steps"}])
            \/ Writes(e, "validationEvidence", "announceOutcome",
                      [records[e] EXCEPT !.evidence = @ \cup {"validation"}])
  <2>1. PICK from, to, record :
                 /\ from \in {"seedEvidence", "validationEvidence"}
                 /\ to \in {"validationEvidence", "announceOutcome"}
                 /\ Writes(e, from, to, record) /\ record.state = records[e].state
    BY <1>1, <1>12 DEF RecordType
  <2>2. records[e].state = "CANCELLED" => Requested(e)
    BY DEF Marked
  <2>3. QED
    BY <1>5, <2>1, <2>2
<1>13. CASE \/ Supervises(e, "execute", "executing") /\ session'[e].state = "RUNNING"
            \/ Supervises(e, "execute", "failRecord") /\ session'[e].state = "READY"
  <2>1. records[e].state = "RUNNING" /\ e \notin cancelled
    BY <1>6, <1>13 DEF Supervises, Phased
  <2>2. QED
    BY <1>3, <1>13, <2>1 DEF Supervises, Marked
<1>14. CASE /\ Supervises(e, "executing", "executing")
            /\ session'[e].state = "CANCELLED" => session[e].state = "CANCELLED" \/ e \in cancelled
  BY <1>1, <1>2, <1>3, <1>14 DEF Supervises, Marked
<1>15. ASSUME NEW from, NEW to, NEW judgement, Judges(e, from, to, judgement),
              to \in {"validate", "commit"}, from \in {"executing", "validate"},
              judgement.state = "CANCELLED" => e \in cancelled
       PROVE  Marked(e)'
  BY <1>1, <1>2, <1>3, <1>15 DEF Judges, Marked
<1>16. CASE Judges(e, "executing", "validate", [state |-> "COMPLETED", validation |-> "NONE"])
  BY <1>15, <1>16
<1>17. CASE Judges(e, "executing", "commit",
                   [state      |-> toPublicState(session[e].state),
                    validation |-> IF request[e].schemaBound THEN "NONE" ELSE "NOT_REQUESTED"])
  <2>1. toPublicState(session[e].state) = "CANCELLED" => e \in cancelled
    BY DEF toPublicState, Marked
  <2>2. QED
    BY <1>15, <1>17, <2>1
<1>18. ASSUME NEW outcome \in {"VALID", "INVALID", "NOT_EVALUATED"},
              Judges(e, "validate", "commit",
                  [state      |-> IF outcome = "INVALID" THEN "FAILED" ELSE verdict[e].state,
                   validation |-> outcome])
       PROVE  Marked(e)'
  BY <1>15, <1>18 DEF Marked
<1>19. QED
  BY <1>7, <1>8, <1>9, <1>10, <1>11, <1>12, <1>13, <1>14, <1>16, <1>17, <1>18, Zenon
     DEF TaskMove

-----------------------------------------------------------------------------
(* The requests and the answers: the idempotency index.                     *)

Indexed(e) ==
    /\ exists(e) /\ request[e].key # NoKey => byIdemKey[request[e].key] = e
    /\ pc[e] = "save" /\ request[e].key # NoKey => byIdemKey[request[e].key] = NoActor
    /\ pc[e] \in {"lookup", "save", "accept"} => request[e] \in Request
    /\ pc[e] \in UnsavedPoints \ {"replayed"} => answer[e] = NoActor

IndexSound ==
    \A k \in Key : byIdemKey[k] # NoActor =>
        exists(byIdemKey[k]) /\ request[byIdemKey[k]].key = k

Answered(e) ==
    answer[e] # NoActor =>
        /\ exists(answer[e])
        /\ request[answer[e]].key = request[e].key
        /\ request[answer[e]].content = request[e].content

KeysServed == IndexSound /\ \A e \in Execution : Indexed(e) /\ Answered(e)

\* A look-up and the save that follows it find the index as the look-up saw it.
LEMMA HandlerKeys ==
    ASSUME TypeInv, NEW e \in Execution, TaskInv(e), KeysServed, HandlerMove(e), Phased(e),
           \A f \in Execution : f # e => rests(f),
           \A f \in Execution : f # e => /\ pc'[f] = pc[f] /\ records'[f] = records[f]
                                         /\ TaskInv(f)
    PROVE  KeysServed'
<1>1. /\ request \in [Execution -> Request \cup {NoRequest}]
      /\ answer \in [Execution -> Execution \cup {NoActor}]
      /\ byIdemKey \in [Key -> Execution \cup {NoActor}]
      /\ records \in [Execution -> RecordType]
  BY DEF TypeInv, TypeOK
<1>2. NoActor \notin Execution /\ NoKey \notin Key
  BY ActorAssumption DEF Actor
<1>3. ASSUME NEW f \in Execution, f # e PROVE pc[f] \notin {"lookup", "save", "accept"}
  BY <1>3, ExecutionRests
<1> USE DEF UnsavedPoints, Writes, Says, passes, keepsRecord
<1>4. CASE Submits(e)
  <2>1. ~ exists(e) /\ answer[e] = NoActor /\ pc[e] = "idle"
    BY <1>4 DEF Submits, TaskInv, KeysServed, Indexed
  <2>2. /\ answer' = answer /\ byIdemKey' = byIdemKey /\ records'[e] = records[e]
        /\ \A f \in Execution : f # e => request'[f] = request[f]
        /\ pc'[e] \in {"refused", "save", "lookup"}
        /\ pc'[e] \in {"save", "lookup"} => request'[e] \in Request
        /\ pc'[e] = "save" => request'[e].key = NoKey
    BY <1>1, <1>4 DEF Submits
  <2>3. ASSUME NEW f \in Execution PROVE exists(f)' <=> exists(f)
    BY <2>2
  <2>4. IndexSound'
    <3> SUFFICES ASSUME NEW k \in Key, byIdemKey[k] # NoActor
                 PROVE  exists(byIdemKey[k])' /\ request'[byIdemKey[k]].key = k
      BY <2>2 DEF IndexSound
    <3>1. /\ byIdemKey[k] \in Execution /\ exists(byIdemKey[k])
          /\ request[byIdemKey[k]].key = k
      BY <1>1 DEF KeysServed, IndexSound
    <3>2. byIdemKey[k] # e
      BY <2>1, <3>1
    <3>3. QED
      BY <2>2, <2>3, <3>1, <3>2
  <2>5. ASSUME NEW f \in Execution PROVE Indexed(f)'
    <3>1. CASE f = e
      BY <2>1, <2>2, <3>1 DEF Indexed
    <3>2. CASE f # e
      BY <1>3, <2>2, <3>2 DEF KeysServed, Indexed
    <3>3. QED
      BY <3>1, <3>2
  <2>6. ASSUME NEW f \in Execution PROVE Answered(f)'
    <3>1. CASE f = e
      BY <2>1, <2>2, <3>1 DEF Answered
    <3>2. CASE f # e
      <4>1. Answered(f) /\ answer[f] \in Execution \cup {NoActor}
        BY <1>1 DEF KeysServed
      <4>2. answer[f] # NoActor => answer[f] # e
        BY <2>1, <4>1 DEF Answered
      <4>3. QED
        BY <2>2, <2>3, <3>2, <4>1, <4>2 DEF Answered
    <3>3. QED
      BY <3>1, <3>2
  <2>7. QED
    BY <2>4, <2>5, <2>6 DEF KeysServed
<1>5. CASE Looks(e)
  <2>1. /\ pc[e] = "lookup" /\ request[e] \in Request /\ request[e].key \in Key
        /\ answer[e] = NoActor /\ ~ exists(e)
    BY <1>5 DEF Looks, KeysServed, Indexed, TypeInv, LookupHasKey, TaskInv
  <2>2. /\ byIdemKey' = byIdemKey /\ request' = request /\ records'[e] = records[e]
        /\ \A f \in Execution : f # e => answer'[f] = answer[f]
        /\ pc'[e] \in {"save", "conflict", "replayed"}
        /\ pc'[e] = "save" => answer' = answer /\ byIdemKey[request[e].key] = NoActor
        /\ pc'[e] = "conflict" => answer' = answer
    BY <1>1, <1>5 DEF Looks
  <2>3. ASSUME NEW f \in Execution PROVE exists(f)' <=> exists(f)
    BY <2>2
  <2>4. IndexSound'
    BY <1>1, <2>2, <2>3 DEF KeysServed, IndexSound
  <2>5. ASSUME NEW f \in Execution PROVE Indexed(f)'
    <3>1. CASE f = e
      BY <2>1, <2>2, <3>1 DEF Indexed
    <3>2. CASE f # e
      BY <1>3, <2>2, <3>2 DEF KeysServed, Indexed
    <3>3. QED
      BY <3>1, <3>2
  <2>6. ASSUME NEW f \in Execution PROVE Answered(f)'
    <3>1. CASE f = e /\ pc'[e] = "replayed"
      <4> DEFINE existing == byIdemKey[request[e].key]
      <4>1. /\ existing # NoActor /\ request[existing].content = request[e].content
            /\ answer'[e] = existing
        BY <1>1, <1>5, <3>1 DEF Looks
      <4>2. existing \in Execution /\ exists(existing) /\ request[existing].key = request[e].key
        BY <1>1, <2>1, <4>1 DEF KeysServed, IndexSound
      <4> HIDE DEF existing
      <4>3. QED
        BY <2>2, <2>3, <3>1, <4>1, <4>2 DEF Answered
    <3>2. CASE f # e \/ pc'[e] # "replayed"
      <4>1. answer'[f] = answer[f] /\ answer[f] \in Execution \cup {NoActor} /\ Answered(f)
        BY <1>1, <2>2, <3>2 DEF KeysServed
      <4>2. QED
        BY <2>2, <2>3, <4>1 DEF Answered
    <3>3. QED
      BY <3>1, <3>2
  <2>7. QED
    BY <2>4, <2>5, <2>6 DEF KeysServed
<1>6. CASE Saves(e)
  <2>1. /\ pc[e] = "save" /\ request[e] \in Request /\ answer[e] = NoActor /\ ~ exists(e)
        /\ request[e].key # NoKey => request[e].key \in Key /\ byIdemKey[request[e].key] = NoActor
    BY <1>6 DEF Saves, KeysServed, Indexed, TaskInv, Request
  <2>2. /\ request' = request /\ answer' = answer /\ exists(e)' /\ pc'[e] = "accept"
        /\ byIdemKey' = IF request[e].key = NoKey THEN byIdemKey
                        ELSE [byIdemKey EXCEPT ![request[e].key] = e]
    BY <1>6 DEF Saves, newRecord, NoRecord
  <2>3. ASSUME NEW f \in Execution, f # e PROVE exists(f)' <=> exists(f)
    BY <2>3
  <2>4. ASSUME NEW k \in Key
        PROVE  byIdemKey'[k] = IF k = request[e].key THEN e ELSE byIdemKey[k]
    BY <1>1, <1>2, <2>1, <2>2
  <2>5. IndexSound'
    <3> SUFFICES ASSUME NEW k \in Key, NEW owner, owner = byIdemKey'[k], owner # NoActor
                 PROVE  exists(owner)' /\ request[owner].key = k
      BY <2>2 DEF IndexSound
    <3>1. CASE k = request[e].key
      BY <2>2, <2>4, <3>1
    <3>2. CASE k # request[e].key
      <4>1. owner = byIdemKey[k] /\ owner \in Execution
        BY <1>1, <2>4, <3>2
      <4>2. exists(owner) /\ request[owner].key = k
        BY <4>1 DEF KeysServed, IndexSound
      <4>3. QED
        BY <2>2, <2>3, <4>1, <4>2
    <3>3. QED
      BY <3>1, <3>2
  <2>6. ASSUME NEW f \in Execution PROVE Indexed(f)'
    <3>1. CASE f = e
      <4>1. request[e].key # NoKey => byIdemKey'[request[e].key] = e
        BY <2>1, <2>4
      <4>2. QED
        BY <2>1, <2>2, <3>1, <4>1 DEF Indexed
    <3>2. CASE f # e
      <4>1. Indexed(f) /\ pc'[f] = pc[f]
        BY <3>2 DEF KeysServed
      <4>2. exists(f) /\ request[f].key # NoKey => request[f].key # request[e].key
        BY <1>2, <2>1, <3>2, <4>1 DEF Indexed
      <4>3. exists(f) /\ request[f].key # NoKey => byIdemKey'[request[f].key] = f
        BY <1>1, <1>2, <2>1, <2>2, <4>1, <4>2 DEF Indexed
      <4>4. QED
        BY <1>3, <2>2, <2>3, <3>2, <4>1, <4>3 DEF Indexed
    <3>3. QED
      BY <3>1, <3>2
  <2>7. ASSUME NEW f \in Execution PROVE Answered(f)'
    <3>1. Answered(f) /\ answer[f] \in Execution \cup {NoActor}
      BY <1>1 DEF KeysServed
    <3>2. QED
      BY <2>2, <2>3, <3>1 DEF Answered
  <2>8. QED
    BY <2>5, <2>6, <2>7 DEF KeysServed
<1>7. CASE Accepts(e)
  <2>1. pc[e] = "accept" /\ exists(e)
    BY <1>7 DEF Accepts, Phased
  <2>2. /\ request' = request /\ byIdemKey' = byIdemKey /\ records'[e] = records[e]
        /\ answer'[e] = e /\ pc'[e] = "admit"
        /\ \A f \in Execution : f # e => answer'[f] = answer[f]
    BY <1>1, <1>7 DEF Accepts
  <2>3. ASSUME NEW f \in Execution PROVE exists(f)' <=> exists(f)
    BY <2>2
  <2>4. IndexSound'
    BY <1>1, <2>2, <2>3 DEF KeysServed, IndexSound
  <2>5. ASSUME NEW f \in Execution PROVE Indexed(f)'
    BY <2>1, <2>2 DEF KeysServed, Indexed
  <2>6. ASSUME NEW f \in Execution PROVE Answered(f)'
    <3>1. CASE f = e
      BY <2>1, <2>2, <3>1 DEF Answered
    <3>2. CASE f # e
      BY <1>1, <2>2, <2>3, <3>2 DEF KeysServed, Answered
    <3>3. QED
      BY <3>1, <3>2
  <2>7. QED
    BY <2>4, <2>5, <2>6 DEF KeysServed
<1>8. QED
  BY <1>4, <1>5, <1>6, <1>7 DEF HandlerMove

\* What leaves the requests, the answers, the index and the existence of records
\* alone leaves the index sound; the tasks and the cancel requests do.
LEMMA KeysFrame ==
    ASSUME TypeInv, KeysServed, request' = request, answer' = answer, byIdemKey' = byIdemKey,
           \A f \in Execution :
               /\ exists(f)' <=> exists(f)
               /\ \/ pc'[f] = pc[f]
                  \/ pc'[f] \notin UnsavedPoints \cup {"accept"}
    PROVE  KeysServed'
<1>1. /\ answer \in [Execution -> Execution \cup {NoActor}]
      /\ byIdemKey \in [Key -> Execution \cup {NoActor}]
  BY DEF TypeInv, TypeOK
<1>2. IndexSound'
  BY <1>1 DEF KeysServed, IndexSound
<1>3. ASSUME NEW f \in Execution PROVE Indexed(f)'
  BY DEF KeysServed, Indexed, UnsavedPoints
<1>4. ASSUME NEW f \in Execution PROVE Answered(f)'
  BY <1>1 DEF KeysServed, Answered
<1>5. QED
  BY <1>2, <1>3, <1>4 DEF KeysServed

\* A task writes existing records only, and never goes back to the handler.
LEMMA TaskKeepsExistence ==
    ASSUME TypeInv, NEW e \in Execution, TaskInv(e), Phased(e), TaskMove(e)
    PROVE  exists(e) /\ exists(e)' /\ pc'[e] \notin UnsavedPoints \cup {"accept"}
<1>1. Phased(e)'
  BY TaskPhases
<1>2. pc[e] \notin UnsavedPoints /\ pc'[e] \notin UnsavedPoints \cup {"accept"}
  BY DEF TaskMove, Writes, Says, Judges, Supervises, passes, UnsavedPoints
<1>3. QED
  BY <1>1, <1>2 DEF Phased

-----------------------------------------------------------------------------
(* The cancel requests of the in-memory build.                              *)

\* Cancelled before its session was known: no skill will be invoked.
SparedPoints ==
    {"planning", "bindSession", "checkCancelled", "commitCancelled", "announceCancelled",
     "failRecord", "announceFailure", "done"}

Spared(e) ==
    /\ pc[e] \in SparedPoints /\ session[e].state = "NONE"
    /\ pc[e] \in {"planning", "bindSession", "checkCancelled"} => records[e].state = "CANCELLING"

Pending(c) ==
    LET e == cancels[c].target
    IN  /\ cancels[c].pc \in {"commit", "announce", "signal"} =>
               /\ pc[e] \in {"planning", "executing"}
               /\ cancels[c].sawSession <=> pc[e] = "executing"
        /\ cancels[c].pc \in {"announce", "signal"} => records[e].state = "CANCELLING"
        /\ cancels[c].pc = "signal" => cancels[c].sawSession
        /\ cancels[c].pc \in {"signal", "accepted"} => Requested(e)
        /\ cancels[c].pc = "accepted" =>
               IF cancels[c].sawSession THEN e \in cancelled ELSE Spared(e)

\* The task of a spared execution goes to its end without the supervisor.
LEMMA SparedStays ==
    ASSUME TypeInv, NEW e \in Execution, Spared(e), HandlerMove(e) \/ TaskMove(e)
    PROVE  Spared(e)'
<1>1. records[e] \in RecordType
  BY DEF TypeInv, TypeOK
<1> USE DEF Spared, SparedPoints, passes, keepsRecord, keepsSession
<1>2. CASE HandlerMove(e)
  BY <1>2 DEF HandlerMove, Submits, Looks, Saves, Accepts, Writes, Says
<1>3. CASE TaskMove(e)
  <2>1. CASE \/ Says(e, "announceCancelled", "done", "EXECUTION_CANCELLED")
             \/ Says(e, "announceFailure", "done", "EXECUTION_FAILED")
    BY <2>1 DEF Says
  <2>2. CASE \/ Writes(e, "planning", "bindSession", records[e])
             \/ Writes(e, "planning", "failRecord", records[e])
             \/ Writes(e, "checkCancelled", "commitCancelled", records[e])
             \/ Writes(e, "commitCancelled", "announceCancelled",
                       [records[e] EXCEPT !.state = "CANCELLED", !.result = "null"])
             \/ Writes(e, "failRecord", "announceFailure",
                       [records[e] EXCEPT !.state = "FAILED", !.result = "null"])
    BY <2>2 DEF Writes
  <2>3. CASE Writes(e, "bindSession", "checkCancelled", [records[e] EXCEPT !.sessionKnown = TRUE])
    BY <1>1, <2>3 DEF Writes, RecordType
  <2>4. CASE /\ Writes(e, "checkCancelled", "start", records[e])
             /\ records[e].state # "CANCELLING"
    BY <2>4 DEF Writes
  <2>5. QED
    BY <1>3, <2>1, <2>2, <2>3, <2>4 DEF TaskMove, Writes, Says, Judges, Supervises
<1>4. QED
  BY <1>2, <1>3

\* A resting cancel request asks little of its execution.
LEMMA RestingPends ==
    ASSUME TypeInv, NEW c \in CancelRequest, rests(c), Pending(c), cancels'[c] = cancels[c],
           \A t \in Execution : /\ Requested(t) => Requested(t)'
                                /\ Spared(t) => Spared(t)'
                                /\ t \in cancelled => t \in cancelled'
    PROVE  Pending(c)'
<1>1. cancels[c].pc \in {"idle", "accepted", "refused", "failed"}
  BY RequestRests
<1>2. CASE cancels[c].pc = "accepted"
  <2>1. PICK t \in Execution : t = cancels[c].target
    BY <1>2 DEF TypeInv, CancelHasTarget
  <2>2. Requested(t) /\ IF cancels[c].sawSession THEN t \in cancelled ELSE Spared(t)
    BY <1>2, <2>1 DEF Pending
  <2>3. Requested(t)' /\ IF cancels[c].sawSession THEN t \in cancelled' ELSE Spared(t)'
    BY <2>2
  <2>4. QED
    BY <1>2, <2>1, <2>3 DEF Pending
<1>3. CASE cancels[c].pc # "accepted"
  BY <1>1, <1>3 DEF Pending
<1>4. QED
  BY <1>2, <1>3

\* A resting cancel request is not disturbed by an execution.
LEMMA MovesKeepPending ==
    ASSUME TypeInv, NEW e \in Execution, HandlerMove(e) \/ TaskMove(e),
           cancelled' = cancelled, cancels' = cancels,
           \A f \in Execution : f # e =>
               /\ pc'[f] = pc[f] /\ records'[f] = records[f] /\ events'[f] = events[f]
               /\ session'[f] = session[f],
           NEW c \in CancelRequest, rests(c), Pending(c)
    PROVE  Pending(c)'
<1>1. ASSUME NEW t \in Execution
      PROVE  (Requested(t) => Requested(t)') /\ (Spared(t) => Spared(t)')
  <2>1. CASE t = e
    BY <2>1, MovesKeepRequests, SparedStays
  <2>2. CASE t # e
    BY <2>2 DEF Requested, Spared
  <2>3. QED
    BY <2>1, <2>2
<1>2. QED
  BY <1>1, RestingPends

\* What the in-memory build keeps true of an execution and of its cancel requests.
Cancellable ==
    /\ \A e \in Execution : Phased(e) /\ Marked(e)
    /\ \A c \in CancelRequest : Pending(c)

\* The request finds every execution waiting or ended: one that can still be
\* cancelled is planned, and its session is not known, or supervised.
LEMMA RequestPends ==
    ASSUME Inductive, Cancellable, NEW c \in CancelRequest, NEW e \in Execution,
           requestCancel(c, e), \A f \in Execution : rests(f)
    PROVE  Cancellable'
<1>1. /\ cancels \in [CancelRequest -> [pc : CancelPoints, sawSession : BOOLEAN,
                                        target : Execution \cup {NoActor}]]
      /\ records[e].sessionKnown \in BOOLEAN
  BY DEF Inductive, TypeInv, TypeOK, RecordType
<1>2. /\ cancels[c].pc = "idle" /\ exists(e)
      /\ cancels'[c] = [pc |-> IF frozen(e) THEN "refused" ELSE "commit",
                        target |-> e, sawSession |-> records[e].sessionKnown]
      /\ \A d \in CancelRequest : d # c => cancels'[d] = cancels[d]
      /\ pc' = pc /\ records' = records /\ events' = events /\ verdict' = verdict
      /\ session' = session /\ cancelled' = cancelled
  BY <1>1 DEF requestCancel, pipelineVars, supervisorVars
<1>3. ~ frozen(e) => pc[e] \in {"planning", "executing"}
  <2>1. pc[e] \notin UnsavedPoints /\ (pc[e] = "done" => frozen(e))
    BY <1>2 DEF Inductive, TaskInv
  <2>2. QED
    BY <2>1, ExecutionRests DEF UnsavedPoints
<1>4. ASSUME NEW f \in Execution PROVE Phased(f)' /\ Marked(f)'
  <2>1. Phased(f)' /\ RequestedFirst(f)' /\ (Requested(f)' <=> Requested(f))
    BY <1>2 DEF Cancellable, Phased, Marked, RequestedFirst, Requested
  <2>2. announcing(f) => announcing(f)'
    BY <1>2 DEF announcing
  <2>3. signalling(f) => signalling(f)'
    BY <1>2 DEF signalling
  <2>4. QED
    BY <1>2, <2>1, <2>2, <2>3 DEF Cancellable, Marked
<1>5. ASSUME NEW d \in CancelRequest PROVE Pending(d)'
  <2>1. CASE d = c
    <3>1. Phased(e)
      BY DEF Cancellable
    <3>2. QED
      BY <1>2, <1>3, <2>1, <3>1 DEF Pending, Phased, BeforeSession
  <2>2. CASE d # c
    BY <1>2, <2>2 DEF Cancellable, Pending, Requested, Spared
  <2>3. QED
    BY <2>1, <2>2
<1>6. QED
  BY <1>4, <1>5 DEF Cancellable

\* The three steps of a cancel request: commit, announce and signal.
LEMMA CommitPends ==
    ASSUME Inductive, Cancellable, NEW c \in CancelRequest, commitCancelling(c),
           \A d \in CancelRequest : d # c => rests(d)
    PROVE  Cancellable'
<1>0. PICK e \in Execution : e = cancels[c].target
  BY DEF commitCancelling, Inductive, TypeInv, CancelHasTarget
<1>1. /\ cancels \in [CancelRequest -> [pc : CancelPoints, sawSession : BOOLEAN,
                                        target : Execution \cup {NoActor}]]
      /\ records \in [Execution -> RecordType]
  BY DEF Inductive, TypeInv, TypeOK
<1>2. /\ cancels[c].pc = "commit" /\ pc[e] \in {"planning", "executing"}
      /\ cancels[c].sawSession <=> pc[e] = "executing"
  BY <1>0 DEF commitCancelling, Cancellable, Pending
<1>3. ~ frozen(e)
  BY <1>2 DEF Inductive, TaskInv, OpenPoints
<1>4. /\ cancels' = [cancels EXCEPT ![c].pc = "announce"]
      /\ records' = [records EXCEPT ![e].state = "CANCELLING"]
      /\ pc' = pc /\ events' = events /\ verdict' = verdict
      /\ session' = session /\ cancelled' = cancelled
  BY <1>0, <1>3 DEF commitCancelling, pipelineVars, supervisorVars
<1>5. /\ records'[e].state = "CANCELLING" /\ records'[e].sessionKnown = records[e].sessionKnown
      /\ \A f \in Execution : f # e => records'[f] = records[f]
  BY <1>1, <1>2, <1>4 DEF RecordType
<1>6. /\ cancels'[c].pc = "announce" /\ cancels'[c].target = e
      /\ cancels'[c].sawSession = cancels[c].sawSession
      /\ \A d \in CancelRequest : d # c => cancels'[d] = cancels[d]
  BY <1>0, <1>1, <1>4
<1>7. ASSUME NEW f \in Execution PROVE Phased(f)' /\ Marked(f)'
  <2>1. RequestedFirst(f)' /\ (Requested(f)' <=> Requested(f))
    BY <1>4 DEF Cancellable, Marked, RequestedFirst, Requested
  <2>2. announcing(f) \/ f = e => announcing(f)'
    BY <1>0, <1>2, <1>6 DEF announcing
  <2>3. signalling(f) \/ f = e => signalling(f)'
    BY <1>0, <1>2, <1>6 DEF signalling
  <2>4. CASE f = e
    <3>1. Phased(e)'
      BY <1>2, <1>4, <1>5 DEF Cancellable, Phased, BeforeSession, BeforeSupervision, UnsavedPoints
    <3>2. Marked(e)'
      BY <1>2, <1>4, <1>5, <2>1, <2>2, <2>3, <2>4 DEF Cancellable, Marked
    <3>3. QED
      BY <2>4, <3>1, <3>2
  <2>5. CASE f # e
    <3>1. Phased(f)'
      BY <1>4, <1>5, <2>5 DEF Cancellable, Phased
    <3>2. Marked(f)'
      BY <1>4, <1>5, <2>1, <2>2, <2>3, <2>5 DEF Cancellable, Marked
    <3>3. QED
      BY <3>1, <3>2
  <2>6. QED
    BY <2>4, <2>5
<1>8. ASSUME NEW d \in CancelRequest PROVE Pending(d)'
  <2>1. CASE d = c
    BY <1>2, <1>4, <1>5, <1>6, <2>1 DEF Pending
  <2>2. CASE d # c
    <3>1. cancels'[d] = cancels[d] /\ Pending(d) /\ TypeInv
      BY <1>6, <2>2 DEF Cancellable, Inductive
    <3>2. ASSUME NEW t \in Execution
          PROVE  /\ Requested(t) => Requested(t)'
                 /\ Spared(t) => Spared(t)'
                 /\ t \in cancelled => t \in cancelled'
      BY <1>4, <1>5 DEF Spared, Requested
    <3>3. QED
      BY <2>2, <3>1, <3>2, RestingPends
  <2>3. QED
    BY <2>1, <2>2
<1>9. QED
  BY <1>7, <1>8 DEF Cancellable

LEMMA AnnouncePends ==
    ASSUME Inductive, Cancellable, NEW c \in CancelRequest, announceCancellation(c),
           \A d \in CancelRequest : d # c => rests(d)
    PROVE  Cancellable'
<1>0. PICK e \in Execution : e = cancels[c].target
  BY DEF announceCancellation, Inductive, TypeInv, CancelHasTarget
<1>1. /\ cancels \in [CancelRequest -> [pc : CancelPoints, sawSession : BOOLEAN,
                                        target : Execution \cup {NoActor}]]
      /\ events \in [Execution -> Seq(EventKinds)]
  BY DEF Inductive, TypeInv, TypeOK
<1>2. /\ cancels[c].pc = "announce" /\ pc[e] \in {"planning", "executing"}
      /\ cancels[c].sawSession <=> pc[e] = "executing"
      /\ records[e].state = "CANCELLING"
  BY <1>0 DEF announceCancellation, Cancellable, Pending
<1>3. ~ terminated(events[e])
  BY <1>2 DEF Inductive, TaskInv, OpenPoints
<1>4. /\ cancels' = [cancels EXCEPT ![c].pc = IF cancels[c].sawSession THEN "signal" ELSE "accepted"]
      /\ events' = [events EXCEPT ![e] = appended(@, "CANCELLATION_REQUESTED")]
      /\ pc' = pc /\ records' = records /\ verdict' = verdict
      /\ session' = session /\ cancelled' = cancelled
  BY <1>0, <1>3 DEF announceCancellation, appendOrSwallow, appendedIfOpen, pipelineVars, supervisorVars
<1>5. /\ cancels'[c].pc = IF cancels[c].sawSession THEN "signal" ELSE "accepted"
      /\ cancels'[c].target = e
      /\ cancels'[c].sawSession = cancels[c].sawSession
      /\ \A d \in CancelRequest : d # c => cancels'[d] = cancels[d]
  BY <1>0, <1>1, <1>4
<1>6. /\ Requested(e)' /\ RequestedFirst(e)'
      /\ \A f \in Execution : f # e => events'[f] = events[f]
  <2>1. "CANCELLATION_REQUESTED" \in EventKinds
    BY DEF EventKinds
  <2>2. events'[e] = appended(events[e], "CANCELLATION_REQUESTED")
    BY <1>1, <1>2, <1>4
  <2>3. Requested(e)' /\ RequestedFirst(e)'
    BY <1>1, <1>2, <2>1, <2>2, RequestsStay DEF Cancellable, Marked
  <2>4. QED
    BY <1>1, <1>2, <1>4, <2>3
<1>7. ASSUME NEW f \in Execution PROVE Phased(f)' /\ Marked(f)'
  <2>1. Phased(f)'
    BY <1>4 DEF Cancellable, Phased
  <2>2. CASE f = e
    <3>1. pc[e] = "executing" => signalling(e)'
      BY <1>2, <1>5 DEF signalling
    <3>2. QED
      BY <1>2, <1>4, <1>6, <2>1, <2>2, <3>1 DEF Cancellable, Marked
  <2>3. CASE f # e
    <3>1. RequestedFirst(f)' /\ (Requested(f)' <=> Requested(f))
      BY <1>6, <2>3 DEF Cancellable, Marked, RequestedFirst, Requested
    <3>2. (announcing(f) => announcing(f)') /\ (signalling(f) => signalling(f)')
      BY <1>0, <1>5, <2>3 DEF announcing, signalling
    <3>3. QED
      BY <1>4, <2>1, <3>1, <3>2 DEF Cancellable, Marked
  <2>4. QED
    BY <2>2, <2>3
<1>8. ASSUME NEW d \in CancelRequest PROVE Pending(d)'
  <2>1. CASE d = c
    BY <1>2, <1>4, <1>5, <1>6, <2>1 DEF Pending, Spared, SparedPoints, Cancellable, Phased,
       BeforeSupervision, BeforeSession
  <2>2. CASE d # c
    <3>1. cancels'[d] = cancels[d] /\ Pending(d) /\ TypeInv
      BY <1>5, <2>2 DEF Cancellable, Inductive
    <3>2. ASSUME NEW t \in Execution
          PROVE  /\ Requested(t) => Requested(t)'
                 /\ Spared(t) => Spared(t)'
                 /\ t \in cancelled => t \in cancelled'
      BY <1>4, <1>6 DEF Spared, Requested
    <3>3. QED
      BY <2>2, <3>1, <3>2, RestingPends
  <2>3. QED
    BY <2>1, <2>2
<1>9. QED
  BY <1>7, <1>8 DEF Cancellable

LEMMA SignalPends ==
    ASSUME Inductive, Cancellable, NEW c \in CancelRequest, signalSupervisor(c),
           \A d \in CancelRequest : d # c => rests(d)
    PROVE  Cancellable'
<1>0. PICK e \in Execution : e = cancels[c].target
  BY DEF signalSupervisor, Inductive, TypeInv, CancelHasTarget
<1>1. /\ cancels \in [CancelRequest -> [pc : CancelPoints, sawSession : BOOLEAN,
                                        target : Execution \cup {NoActor}]]
  BY DEF Inductive, TypeInv, TypeOK
<1>2. /\ cancels[c].pc = "signal" /\ pc[e] = "executing"
      /\ cancels[c].sawSession /\ records[e].state = "CANCELLING" /\ Requested(e)
  BY <1>0 DEF signalSupervisor, Cancellable, Pending
<1>3. /\ cancels' = [cancels EXCEPT ![c].pc = "accepted"]
      /\ pc' = pc /\ records' = records /\ verdict' = verdict /\ events' = events
      /\ session' = session /\ cancelled' = cancelled \cup {e}
  BY <1>0 DEF signalSupervisor, pipelineVars, Supervisor!cancel
<1>4. /\ cancels'[c].pc = "accepted" /\ cancels'[c].target = e
      /\ cancels'[c].sawSession = cancels[c].sawSession
      /\ \A d \in CancelRequest : d # c => cancels'[d] = cancels[d]
  BY <1>0, <1>1, <1>3
<1>5. ASSUME NEW f \in Execution
      PROVE  /\ RequestedFirst(f)' /\ (Requested(f)' <=> Requested(f)) /\ (Spared(f)' <=> Spared(f))
             /\ Phased(f)'
  BY <1>3 DEF Cancellable, Marked, RequestedFirst, Requested, Spared, Phased
<1>6. ASSUME NEW f \in Execution PROVE Marked(f)'
  <2>1. CASE f = e
    BY <1>2, <1>3, <1>5, <2>1 DEF Marked, SupervisedPoints
  <2>2. CASE f # e
    <3>1. (announcing(f) => announcing(f)') /\ (signalling(f) => signalling(f)')
      BY <1>0, <1>4, <2>2 DEF announcing, signalling
    <3>2. QED
      BY <1>3, <1>5, <2>2, <3>1 DEF Cancellable, Marked
  <2>3. QED
    BY <2>1, <2>2
<1>7. ASSUME NEW d \in CancelRequest PROVE Pending(d)'
  <2>1. CASE d = c
    BY <1>2, <1>3, <1>4, <1>5, <2>1 DEF Pending
  <2>2. CASE d # c
    <3>1. cancels'[d] = cancels[d] /\ Pending(d) /\ TypeInv
      BY <1>4, <2>2 DEF Cancellable, Inductive
    <3>2. QED
      BY <1>3, <1>5, <2>2, <3>1, RestingPends
  <2>3. QED
    BY <2>1, <2>2
<1>8. QED
  BY <1>5, <1>6, <1>7 DEF Cancellable

-----------------------------------------------------------------------------
(* The in-memory build, put together.                                       *)

InMemory == Inductive /\ OneAtATime /\ KeysServed /\ Cancellable

\* Who rests is told by an actor's own state.
LEMMA RestsFramed ==
    /\ \A f \in Execution : pc'[f] = pc[f] /\ session'[f] = session[f] => (rests(f)' <=> rests(f))
    /\ \A c \in CancelRequest : cancels'[c] = cancels[c] => (rests(c)' <=> rests(c))
BY ActorAssumption DEF rests

LEMMA InitInMemory == StoreSuspends = FALSE /\ Init => InMemory
<1> SUFFICES ASSUME Init PROVE InMemory
  OBVIOUS
<1>1. Inductive
  BY InitInductive
<1>2. OneAtATime
  <2>1. \A a \in Actor : rests(a)
    BY ExecutionRests, RequestRests DEF Init, Actor, NoCancel
  <2>2. QED
    BY <2>1 DEF OneAtATime
<1>3. KeysServed
  BY DEF Init, KeysServed, IndexSound, Indexed, Answered, NoRecord, UnsavedPoints
<1>4. ASSUME NEW e \in Execution PROVE Phased(e) /\ Marked(e)
  <2>1. Phased(e)
    BY DEF Init, Phased, NoRecord, BeforeSession, BeforeSupervision, UnsavedPoints,
           Supervisor!Init, Supervisor!NoSession
  <2>2. Marked(e)
    BY DEF Init, Marked, NoRecord, RequestedFirst, Supervisor!Init, Supervisor!NoSession
  <2>3. QED
    BY <2>1, <2>2
<1>5. ASSUME NEW c \in CancelRequest PROVE Pending(c)
  BY DEF Init, Pending, NoCancel
<1>6. QED
  BY <1>1, <1>2, <1>3, <1>4, <1>5 DEF InMemory, Cancellable

\* An execution's turn.
LEMMA ExecutionInMemory ==
    ASSUME StoreSuspends = FALSE, InMemory, NEW e \in Execution, executionStep(e)
    PROVE  OneAtATime' /\ KeysServed' /\ Cancellable'
<1>1. /\ mayRun(e) /\ yields(e) /\ (handler(e) \/ task(e)) /\ e \in Actor
      /\ TypeInv /\ TaskInv(e) /\ Phased(e) /\ Marked(e)
  BY DEF executionStep, InMemory, Inductive, Cancellable, Actor
<1>2. \A b \in Actor : b # e => rests(b)
  BY <1>1, OthersRest DEF InMemory
<1>3. /\ \A f \in Execution : f # e => rests(f)
      /\ \A c \in CancelRequest : rests(c)
  BY <1>2, ActorAssumption DEF Actor
<1>4. /\ cancels' = cancels
      /\ \A f \in Execution : f # e =>
             /\ pc'[f] = pc[f] /\ records'[f] = records[f]
             /\ events'[f] = events[f] /\ verdict'[f] = verdict[f]
  BY <1>1, StepFrame
<1>5. /\ HandlerMove(e) \/ TaskMove(e)
      /\ cancelled' = cancelled
      /\ \A f \in Execution : f # e => session'[f] = session[f]
  BY <1>1, HandlerMoves, TaskMoves
<1>6. OneAtATime'
  <2>1. ASSUME NEW b \in Actor, b # e PROVE rests(b)'
    BY <1>2, <1>4, <1>5, <2>1, RestsFramed DEF Actor
  <2>2. QED
    BY <1>1, <2>1, TurnsTaken
<1>7. KeysServed'
  <2>1. CASE handler(e)
    <3>1. HandlerMove(e)
      BY <1>1, <2>1, HandlerMoves
    <3>2. \A f \in Execution : TaskInv(f)
      BY DEF InMemory, Inductive
    <3>3. KeysServed
      BY DEF InMemory
    <3>4. QED
      BY <1>1, <1>3, <1>4, <3>1, <3>2, <3>3, HandlerKeys
  <2>2. CASE task(e)
    <3>1. TaskMove(e) /\ request' = request /\ byIdemKey' = byIdemKey /\ answer' = answer
      BY <1>1, <2>2, TaskMoves
    <3>2. exists(e) /\ exists(e)' /\ pc'[e] \notin UnsavedPoints \cup {"accept"}
      BY <1>1, <3>1, TaskKeepsExistence
    <3>3. ASSUME NEW f \in Execution
          PROVE  /\ exists(f)' <=> exists(f)
                 /\ pc'[f] = pc[f] \/ pc'[f] \notin UnsavedPoints \cup {"accept"}
      BY <1>4, <3>2
    <3>4. KeysServed
      BY DEF InMemory
    <3>5. QED
      BY <1>1, <3>1, <3>3, <3>4, KeysFrame
  <2>3. QED
    BY <1>1, <2>1, <2>2
<1>8. ASSUME NEW f \in Execution PROVE Phased(f)' /\ Marked(f)'
  <2>1. CASE f # e
    <3>1. Phased(f) /\ Marked(f)
      BY DEF InMemory, Cancellable
    <3>2. QED
      BY <1>4, <1>5, <2>1, <3>1
         DEF Phased, Marked, Requested, RequestedFirst, announcing, signalling
  <2>2. ~ announcing(e) /\ ~ signalling(e)
    BY <1>3, RequestsRest
  <2>3. CASE handler(e)
    <3>1. HandlerMove(e) /\ session' = session
      BY <1>1, <2>3, HandlerMoves
    <3>2. Phased(e)' /\ Marked(e)'
      BY <1>1, <1>4, <1>5, <3>1, HandlerPhases, HandlerMarks
    <3>3. QED
      BY <2>1, <3>2
  <2>4. CASE task(e)
    <3>1. TaskMove(e)
      BY <1>1, <2>4, TaskMoves
    <3>2. Phased(e)' /\ Marked(e)'
      BY <1>1, <1>4, <1>5, <2>2, <3>1, TaskPhases, TaskMarks
    <3>3. QED
      BY <2>1, <3>2
  <2>5. QED
    BY <1>1, <2>3, <2>4
<1>9. ASSUME NEW c \in CancelRequest PROVE Pending(c)'
  <2>1. Pending(c) /\ rests(c)
    BY <1>3 DEF InMemory, Cancellable
  <2>2. QED
    BY <1>1, <1>4, <1>5, <2>1, MovesKeepPending
<1>10. QED
  BY <1>6, <1>7, <1>8, <1>9 DEF Cancellable

\* A cancel request's turn.
LEMMA RequestInMemory ==
    ASSUME StoreSuspends = FALSE, InMemory, NEW c \in CancelRequest, cancelRequestStep(c)
    PROVE  OneAtATime' /\ KeysServed' /\ Cancellable'
<1>1. /\ mayRun(c) /\ yields(c) /\ c \in Actor /\ TypeInv /\ Inductive /\ Cancellable
      /\ KeysServed /\ CancelInv(c)
      /\ cancelStep(c) \/ \E e \in Execution : requestCancel(c, e)
  BY DEF cancelRequestStep, InMemory, Inductive, Actor
<1>2. \A b \in Actor : b # c => rests(b)
  BY <1>1, OthersRest DEF InMemory
<1>3. /\ \A f \in Execution : rests(f)
      /\ \A d \in CancelRequest : d # c => rests(d)
  BY <1>2, ActorAssumption DEF Actor
<1>4. /\ pc' = pc /\ session' = session /\ request' = request /\ byIdemKey' = byIdemKey
      /\ answer' = answer /\ \A d \in CancelRequest : d # c => cancels'[d] = cancels[d]
  BY <1>1 DEF cancelStep, requestCancel, commitCancelling, announceCancellation,
              signalSupervisor, Supervisor!cancel, pipelineVars, supervisorVars, TypeInv, TypeOK
<1>5. OneAtATime'
  <2>1. ASSUME NEW b \in Actor, b # c PROVE rests(b)'
    BY <1>2, <1>4, <2>1, RestsFramed DEF Actor
  <2>2. QED
    BY <1>1, <2>1, TurnsTaken
<1>6. KeysServed'
  <2>1. ASSUME NEW f \in Execution PROVE exists(f)' <=> exists(f)
    <3>1. CancelMove(f) /\ Phased(f) /\ records[f] \in RecordType
      BY <1>1, CancelMoves DEF Inductive, Cancellable, TypeInv, TypeOK
    <3>2. QED
      BY <3>1 DEF CancelMove, Phased, UnsavedPoints, OpenPoints, RecordType
  <2>2. QED
    BY <1>1, <1>4, <2>1, KeysFrame
<1>7. Cancellable'
  <2>1. ASSUME NEW e \in Execution, requestCancel(c, e) PROVE Cancellable'
    BY <1>1, <1>3, <2>1, RequestPends
  <2>2. CASE commitCancelling(c)
    BY <1>1, <1>3, <2>2, CommitPends
  <2>3. CASE announceCancellation(c)
    BY <1>1, <1>3, <2>3, AnnouncePends
  <2>4. CASE signalSupervisor(c)
    BY <1>1, <1>3, <2>4, SignalPends
  <2>5. QED
    BY <1>1, <2>1, <2>2, <2>3, <2>4 DEF cancelStep
<1>8. QED
  BY <1>5, <1>6, <1>7

\* Every step of the in-memory build, an execution's or a request's.
LEMMA NextInMemory == StoreSuspends = FALSE /\ InMemory /\ [Next]_vars => InMemory'
<1> SUFFICES ASSUME StoreSuspends = FALSE, InMemory, [Next]_vars PROVE InMemory'
  OBVIOUS
<1>1. Inductive'
  BY NextInductive DEF InMemory
<1>2. CASE quiesce \/ UNCHANGED vars
  <2>1. UNCHANGED vars
    BY <1>2 DEF quiesce
  <2>2. /\ request' = request /\ pc' = pc /\ verdict' = verdict /\ records' = records
        /\ byIdemKey' = byIdemKey /\ events' = events /\ answer' = answer
        /\ session' = session /\ cancelled' = cancelled /\ cancels' = cancels /\ loop' = loop
    BY <2>1 DEF vars
  <2>3. OneAtATime'
    BY <2>2, RestsFramed DEF InMemory, OneAtATime, Actor
  <2>4. KeysServed'
    BY <2>2 DEF InMemory, KeysServed, IndexSound, Indexed, Answered
  <2>5. ASSUME NEW e \in Execution PROVE Phased(e)' /\ Marked(e)'
    BY <2>2 DEF InMemory, Cancellable, Phased, Marked, Requested, RequestedFirst, announcing,
                signalling
  <2>6. ASSUME NEW c \in CancelRequest PROVE Pending(c)'
    BY <2>2 DEF InMemory, Cancellable, Pending, Spared, Requested
  <2>7. QED
    BY <1>1, <2>3, <2>4, <2>5, <2>6 DEF InMemory, Cancellable
<1>3. QED
  BY <1>1, <1>2, ExecutionInMemory, RequestInMemory DEF Next, InMemory

\* The invariant of the in-memory build.
LEMMA InMemoryHolds ==
    ASSUME StoreSuspends = FALSE
    PROVE  Spec => []InMemory
BY InitInMemory, NextInMemory, PTL DEF Spec

\* One execution per idempotency key in the in-memory build: between the look-up
\* of a key and the save that indexes it no other submission runs.
THEOREM KeysAreUnique ==
    ASSUME StoreSuspends = FALSE
    PROVE  Spec => []OneExecutionPerKey
<1>1. InMemory => OneExecutionPerKey
  <2> SUFFICES ASSUME InMemory PROVE OneExecutionPerKey
    OBVIOUS
  <2>1. \A e \in Execution : Indexed(e) /\ Answered(e)
    BY DEF InMemory, KeysServed
  <2>2. ASSUME NEW e \in Execution, NEW f \in Execution, e # f, exists(e), exists(f),
               request[e].key # NoKey
        PROVE  request[e].key # request[f].key
    BY <2>1, <2>2 DEF Indexed
  <2>3. QED
    BY <2>1, <2>2 DEF OneExecutionPerKey, Answered
<1>2. QED
  BY <1>1, InMemoryHolds, PTL

\* A cancel that was accepted in the in-memory build takes effect: it came before
\* the supervisor was called, or it has signalled the supervisor; and a stream
\* tells of the request before it tells of the cancellation.
THEOREM AcceptedCancelsTakeEffect ==
    ASSUME StoreSuspends = FALSE
    PROVE  Spec => []AcceptedCancelTakesEffect
<1>1. InMemory => AcceptedCancelTakesEffect
  <2> SUFFICES ASSUME InMemory PROVE AcceptedCancelTakesEffect
    OBVIOUS
  <2>1. ASSUME NEW c \in CancelRequest, cancels[c].pc = "accepted"
        PROVE  IF cancels[c].sawSession THEN cancels[c].target \in cancelled
               ELSE session[cancels[c].target].state = "NONE"
    BY <2>1 DEF InMemory, Cancellable, Pending, Spared
  <2>2. ASSUME NEW e \in Execution, loop = NoActor, records[e].state = "CANCELLING",
               pc[e] = "executing"
        PROVE  e \in cancelled
    <3>1. \A c \in CancelRequest : rests(c)
      BY <2>2, ActorAssumption DEF InMemory, OneAtATime, Actor
    <3>2. QED
      BY <2>2, <3>1, RequestsRest DEF InMemory, Cancellable, Marked
  <2>3. \A e \in Execution : RequestedFirst(e)
    BY DEF InMemory, Cancellable, Marked
  <2>4. QED
    BY <2>1, <2>2, <2>3 DEF AcceptedCancelTakesEffect, RequestedFirst
<1>2. QED
  BY <1>1, InMemoryHolds, PTL

-----------------------------------------------------------------------------
(* The public life of an execution.                                         *)

\* How far the lifecycle lets a record and its stream move in one step.
LifeMove(e) ==
    LET from == records[e].state
        to == records'[e].state
        announcedAlready == terminated(events[e])
        announcedThen == terminated(events'[e])
    IN  \/ /\ announcedThen <=> announcedAlready
           /\ \/ to = from
              \/ from = "NONE" /\ to = "QUEUED"
              \/ from = "QUEUED" /\ to = "ADMITTED"
              \/ from = "ADMITTED" /\ to = "RUNNING"
              \/ from \in {"ADMITTED", "RUNNING"} /\ to = "CANCELLING"
              \/ from \in {"RUNNING", "CANCELLING"} /\ to = "COMPLETED"
              \/ from \in {"ADMITTED", "RUNNING", "CANCELLING"} /\ to = "FAILED"
              \/ from = "CANCELLING" /\ to = "CANCELLED"
        \/ to = from /\ from \in TerminalStates /\ announcedThen

\* Such a move of one execution is a step of the lifecycle, or a stutter.
LEMMA LifeMovesOn ==
    ASSUME TypeInv, NEW e \in Execution, LifeMove(e),
           \A f \in Execution : f # e => /\ records'[f].state = records[f].state
                                         /\ terminated(events'[f]) <=> terminated(events[f])
    PROVE  [Lifecycle!Next]_(Lifecycle!vars)
<1> DEFINE phase == [f \in Execution |-> records[f].state]
           announced == [f \in Execution |-> terminated(events[f])]
           newPhase == [f \in Execution |-> records'[f].state]
           newAnnounced == [f \in Execution |-> terminated(events'[f])]
<1>1. /\ newPhase = [phase EXCEPT ![e] = records'[e].state]
      /\ records'[e].state = records[e].state => newPhase = phase
  OBVIOUS
<1>2. \A f \in Execution : announced[f] \in BOOLEAN /\ newAnnounced[f] \in BOOLEAN
  BY DEF terminated
<1>3. /\ terminated(events'[e]) => newAnnounced = [announced EXCEPT ![e] = TRUE]
      /\ (terminated(events'[e]) <=> terminated(events[e])) => newAnnounced = announced
  BY <1>2, Zenon
<1>4. QED
  BY <1>1, <1>3
     DEF LifeMove, Lifecycle!Next, Lifecycle!vars, Lifecycle!move, Lifecycle!Queue,
         Lifecycle!Admit, Lifecycle!Run, Lifecycle!RequestCancel, Lifecycle!Complete,
         Lifecycle!Fail, Lifecycle!Cancel, Lifecycle!Announce, Lifecycle!TerminalStates, TerminalStates

\* What is told on the way does not end the stream.
LEMMA SaysOn ==
    ASSUME TypeInv, NEW e \in Execution, NEW from, NEW to,
           NEW kind \in EventKinds \ TerminalKinds, Says(e, from, to, kind)
    PROVE  LifeMove(e)
<1>1. events[e] \in Seq(EventKinds)
  BY DEF TypeInv, TypeOK
<1>2. terminated(events'[e]) <=> terminated(events[e])
  BY <1>1, TerminatedAppend DEF Says
<1>3. QED
  BY <1>2 DEF LifeMove, Says, keepsRecord

\* The moves of handler, task and requests are moves of the lifecycle.
LEMMA HandlerLives ==
    ASSUME TypeInv, NEW e \in Execution, TaskInv(e), HandlerMove(e)
    PROVE  LifeMove(e)
<1>1. CASE Submits(e) \/ Looks(e)
  BY <1>1 DEF Submits, Looks, Writes, keepsStream, LifeMove
<1>2. CASE Saves(e)
  BY <1>2 DEF Saves, Writes, passes, keepsStream, LifeMove, TaskInv, UnsavedPoints, newRecord,
              NoRecord
<1>3. CASE Accepts(e)
  <2>1. "EXECUTION_ACCEPTED" \in EventKinds \ TerminalKinds
    BY DEF EventKinds, TerminalKinds
  <2>2. QED
    BY <1>3, <2>1, SaysOn DEF Accepts
<1>4. QED
  BY <1>1, <1>2, <1>3 DEF HandlerMove

\* The task writes what the lifecycle allows from where the record stands: a
\* cancellation is the outcome of a cancelled session only.
LEMMA TaskLives ==
    ASSUME TypeInv, NEW e \in Execution, TaskInv(e), Phased(e), Marked(e), TaskMove(e)
    PROVE  LifeMove(e)
<1>1. records[e] \in RecordType /\ events[e] \in Seq(EventKinds)
  BY DEF TypeInv, TypeOK
<1>2. ASSUME NEW from, NEW to, NEW record, Writes(e, from, to, record),
             record.state = records[e].state
      PROVE  LifeMove(e)
  BY <1>2 DEF Writes, keepsStream, LifeMove
<1>3. CASE \/ Writes(e, "admit", "announceAdmitted", [records[e] EXCEPT !.state = "ADMITTED"])
           \/ Writes(e, "start", "announceStarted", [records[e] EXCEPT !.state = "RUNNING"])
           \/ Writes(e, "commitCancelled", "announceCancelled",
                     [records[e] EXCEPT !.state = "CANCELLED", !.result = "null"])
           \/ Writes(e, "failRecord", "announceFailure",
                     [records[e] EXCEPT !.state = "FAILED", !.result = "null"])
  BY <1>1, <1>3 DEF Writes, passes, keepsStream, LifeMove, Phased, RecordType
<1>4. CASE Writes(e, "commit", "seedEvidence", judged(e))
  <2>1. /\ records[e].state \in {"RUNNING", "CANCELLING"}
        /\ verdict[e].state \in TerminalStates
        /\ verdict[e].state = "CANCELLED" => records[e].state = "CANCELLING"
    BY <1>4 DEF Writes, passes, Phased, TaskInv, Marked
  <2>2. records'[e].state = verdict[e].state /\ events'[e] = events[e]
    BY <1>1, <1>4 DEF Writes, keepsStream, judged, RecordType
  <2>3. QED
    BY <2>1, <2>2 DEF LifeMove, TerminalStates
<1>5. CASE \/ Says(e, "announceAdmitted", "planning", "EXECUTION_ADMITTED")
           \/ Says(e, "announceStarted", "execute", "EXECUTION_STARTED")
  <2>1. {"EXECUTION_ADMITTED", "EXECUTION_STARTED"} \subseteq EventKinds \ TerminalKinds
    BY DEF EventKinds, TerminalKinds
  <2>2. QED
    BY <1>5, <2>1, SaysOn
<1>6. ASSUME NEW from \in SettledPoints, NEW to, NEW kind \in EventKinds \cap TerminalKinds,
             Says(e, from, to, kind)
      PROVE  LifeMove(e)
  <2>1. frozen(e) /\ records'[e] = records[e]
    BY <1>6 DEF Says, passes, keepsRecord, TaskInv
  <2>2. terminated(events'[e])
    BY <1>1, <1>6, TerminatedAppend DEF Says
  <2>3. QED
    BY <2>1, <2>2 DEF LifeMove, frozen
<1>7. CASE \/ Says(e, "announceCancelled", "done", "EXECUTION_CANCELLED")
           \/ Says(e, "announceOutcome", "done", TerminalKindOf(verdict[e].state))
           \/ Says(e, "announceFailure", "done", "EXECUTION_FAILED")
  <2>1. /\ {"EXECUTION_CANCELLED", "EXECUTION_FAILED", TerminalKindOf(verdict[e].state)}
               \subseteq EventKinds \cap TerminalKinds
        /\ {"announceCancelled", "announceOutcome", "announceFailure"} \subseteq SettledPoints
    BY DEF EventKinds, TerminalKinds, TerminalKindOf, SettledPoints
  <2>2. QED
    BY <1>6, <1>7, <2>1
<1>8. CASE keepsRecord(e) /\ keepsStream(e)
  BY <1>8 DEF keepsRecord, keepsStream, LifeMove
<1>9. /\ [records[e] EXCEPT !.sessionKnown = TRUE].state = records[e].state
      /\ [records[e] EXCEPT !.evidence = @ \cup {"steps"}].state = records[e].state
      /\ [records[e] EXCEPT !.evidence = @ \cup {"validation"}].state = records[e].state
  BY <1>1 DEF RecordType
<1>10. QED
  BY <1>2, <1>3, <1>4, <1>5, <1>7, <1>8, <1>9, Zenon DEF TaskMove, Judges, Supervises

\* A step of the in-memory build is a step of the lifecycle.
LEMMA LifecycleStep ==
    StoreSuspends = FALSE /\ InMemory /\ [Next]_vars => [Lifecycle!Next]_(Lifecycle!vars)
<1> SUFFICES ASSUME StoreSuspends = FALSE, InMemory, [Next]_vars
             PROVE  [Lifecycle!Next]_(Lifecycle!vars)
  OBVIOUS
<1>1. /\ TypeInv /\ Inductive /\ Cancellable
      /\ records \in [Execution -> RecordType] /\ events \in [Execution -> Seq(EventKinds)]
  BY DEF InMemory, Inductive, TypeInv, TypeOK
<1>2. ASSUME NEW e \in Execution, executionStep(e) PROVE [Lifecycle!Next]_(Lifecycle!vars)
  <2>1. (handler(e) \/ task(e)) /\ TaskInv(e) /\ Phased(e) /\ Marked(e)
    BY <1>1, <1>2 DEF executionStep, Inductive, Cancellable
  <2>2. LifeMove(e)
    <3>1. CASE handler(e)
      BY <1>1, <2>1, <3>1, HandlerMoves, HandlerLives
    <3>2. CASE task(e)
      BY <1>1, <2>1, <3>2, TaskMoves, TaskLives
    <3>3. QED
      BY <2>1, <3>1, <3>2
  <2>3. \A f \in Execution : f # e => records'[f] = records[f] /\ events'[f] = events[f]
    BY <1>1, <2>1, StepFrame
  <2>4. QED
    BY <1>1, <2>2, <2>3, LifeMovesOn
<1>3. ASSUME records' = records,
             \A f \in Execution : terminated(events'[f]) <=> terminated(events[f])
      PROVE  [Lifecycle!Next]_(Lifecycle!vars)
  <2>1. \A f \in Execution : terminated(events'[f]) = terminated(events[f])
    BY <1>3 DEF terminated
  <2>2. [f \in Execution |-> terminated(events'[f])] = [f \in Execution |-> terminated(events[f])]
    BY <2>1, Zenon
  <2>3. QED
    BY <1>3, <2>2 DEF Lifecycle!vars
<1>4. ASSUME NEW c \in CancelRequest, cancelRequestStep(c)
      PROVE  [Lifecycle!Next]_(Lifecycle!vars)
  <2>1. CASE commitCancelling(c)
    <3>1. PICK e \in Execution : e = cancels[c].target
      BY <1>1, <2>1 DEF commitCancelling, TypeInv, CancelHasTarget
    <3>2. pc[e] \in {"planning", "executing"} /\ Phased(e)
      BY <1>1, <2>1, <3>1 DEF commitCancelling, Cancellable, Pending
    <3>3. ~ frozen(e) /\ records[e].state \in {"ADMITTED", "RUNNING", "CANCELLING"}
      BY <1>1, <3>2 DEF Inductive, TaskInv, OpenPoints, Phased
    <3>4. records' = [records EXCEPT ![e].state = "CANCELLING"] /\ events' = events
      BY <2>1, <3>1, <3>3 DEF commitCancelling
    <3>5. /\ records'[e].state = "CANCELLING"
          /\ \A f \in Execution : f # e => records'[f] = records[f]
      BY <1>1, <3>4 DEF RecordType
    <3>6. LifeMove(e)
      BY <3>3, <3>4, <3>5 DEF LifeMove
    <3>7. QED
      BY <1>1, <3>4, <3>5, <3>6, LifeMovesOn
  <2>2. CASE announceCancellation(c)
    <3>1. "CANCELLATION_REQUESTED" \in EventKinds /\ "CANCELLATION_REQUESTED" \notin TerminalKinds
      BY DEF EventKinds, TerminalKinds
    <3>2. ASSUME NEW f \in Execution PROVE terminated(events'[f]) <=> terminated(events[f])
      <4>1. CancelMove(f)
        BY <1>1, <2>2, CancelMoves DEF cancelStep, Inductive
      <4>2. QED
        BY <1>1, <3>1, <4>1, TerminatedAppend DEF CancelMove
    <3>3. records' = records
      BY <2>2 DEF announceCancellation
    <3>4. QED
      BY <1>3, <3>2, <3>3
  <2>3. CASE signalSupervisor(c) \/ \E e \in Execution : requestCancel(c, e)
    BY <1>3, <2>3 DEF signalSupervisor, requestCancel
  <2>4. QED
    BY <1>4, <2>1, <2>2, <2>3 DEF cancelRequestStep, cancelStep
<1>5. CASE quiesce \/ UNCHANGED vars
  BY <1>3, <1>5 DEF quiesce, vars
<1>6. QED
  BY <1>2, <1>4, <1>5 DEF Next

\* An empty repository is the lifecycle's beginning.
LEMMA LifecycleStarts == Init => Lifecycle!Init
BY DEF Init, NoRecord, Lifecycle!Init, terminated

\* The in-memory build implements the lifecycle that the public API promises:
\* every write of a record is one of its moves, and a terminal event announces
\* a settled outcome.
THEOREM LifecycleImplemented ==
    ASSUME StoreSuspends = FALSE
    PROVE  Spec => ImplementsLifecycle
BY LifecycleStarts, LifecycleStep, InMemoryHolds, PTL
   DEF Spec, ImplementsLifecycle, Lifecycle!Spec
=============================================================================
