-------------------------- MODULE DelegationProofs --------------------------
(***************************************************************************)
(* Proofs about Delegation, for any runs, tasks and delegation ids, shared *)
(* ids included.                                                           *)
(***************************************************************************)
EXTENDS Delegation, TLAPS

-----------------------------------------------------------------------------
(* The inductive invariant: what the event log and the task repository say  *)
(* of each other.                                                           *)

TaskRecord == [state : DOMAIN DelegatedTaskTransitions, run : Run \cup {NoRun},
               delegation : DelegationId \cup {NoId}, answer : Answers]

EventOf(task, kind) == [kind |-> kind, run |-> task.run, delegation |-> task.delegation]

\* An event of this kind is true of the task.
Bears(task, kind) ==
    /\ task.state # "NONE"
    /\ kind = "result-submitted" => task.answer # "none"
    /\ kind = "result-accepted" => task.state = "ACCEPTED_RESULT"
    /\ kind = "result-rejected" => task.state = "REJECTED_RESULT"
    /\ kind = "delegation-cancelled" => task.state = "CANCELLED"

\* Everything that became of the task is in the log.
Told(task, log) ==
    task.state # "NONE" =>
        /\ task.run \in Run /\ task.delegation \in DelegationId
        /\ EventOf(task, "delegation-proposed") \in log
        /\ EventOf(task, "delegation-offered") \in log
        /\ task.answer # "none" => EventOf(task, "result-submitted") \in log
        /\ task.state = "ACCEPTED_RESULT" => EventOf(task, "result-accepted") \in log
        /\ task.state = "REJECTED_RESULT" => EventOf(task, "result-rejected") \in log
        /\ task.state = "CANCELLED" => EventOf(task, "delegation-cancelled") \in log

\* A task has an answer only once it was submitted.
Answered(task) ==
    /\ task.state \in {"NONE", "OFFERED", "ACCEPTED", "RUNNING"} => task.answer = "none"
    /\ task.state = "SUBMITTED" => task.answer # "none"

\* The event is about this task.
About(e, task) == e = EventOf(task, e.kind) /\ Bears(task, e.kind)

Evidenced ==
    /\ \A t \in Task : Told(tasks[t], agentEvents) /\ Answered(tasks[t])
    /\ \A e \in agentEvents : \E u \in Task : About(e, tasks[u])

RevokedAreOver == \A t \in revoked : tasks[t].state \in ResolvedStates \cup {"SUBMITTED"}

Inductive == TypeOK /\ Evidenced /\ RevokedAreOver

-----------------------------------------------------------------------------
(* How a task may change.                                                   *)

\* A task that exists moves along its transitions, its answer is set once, and
\* the log learns of it.
Moves(t, new, kind) ==
    /\ tasks[t].state # "NONE"
    /\ new.state \in DelegatedTaskTransitions[tasks[t].state]
    /\ new.run = tasks[t].run /\ new.delegation = tasks[t].delegation
    /\ new.answer = tasks[t].answer \/ (tasks[t].state = "RUNNING" /\ new.state = "SUBMITTED")
    /\ Answered(new)
    /\ new.state = "SUBMITTED" <=> kind = "result-submitted"
    /\ new.state = "ACCEPTED_RESULT" <=> kind = "result-accepted"
    /\ new.state = "REJECTED_RESULT" <=> kind = "result-rejected"
    /\ new.state = "CANCELLED" <=> kind = "delegation-cancelled"
    /\ tasks' = [tasks EXCEPT ![t] = new]
    /\ agentEvents' = agentEvents \cup {event(t, kind)}

\* The table of transitions, read backwards.
LEMMA Backwards ==
    ASSUME NEW from \in DOMAIN DelegatedTaskTransitions,
           NEW to \in DelegatedTaskTransitions[from]
    PROVE  /\ to \in DOMAIN DelegatedTaskTransitions \ {"NONE"}
           /\ from \notin ResolvedStates
           /\ to = "SUBMITTED" => from = "RUNNING"
           /\ from = "SUBMITTED" => to \in ResolvedStates
BY DEF DelegatedTaskTransitions, ResolvedStates

\* What an event says of a task stays true when the task moves.
LEMMA BearsKept ==
    ASSUME NEW t \in Task, NEW new \in TaskRecord, NEW kind, Moves(t, new, kind),
           tasks[t] \in TaskRecord, Answered(tasks[t]), NEW k, Bears(tasks[t], k)
    PROVE  Bears(new, k)
BY DEF Bears, Moves, TaskRecord, DelegatedTaskTransitions, Answered

\* Log and repository agree after a task has moved.
LEMMA MovedEvidence ==
    ASSUME TypeOK, Evidenced, NEW t \in Task, NEW new \in TaskRecord,
           NEW kind, Moves(t, new, kind)
    PROVE  Evidenced'
<1> USE DEF EventOf
<1>1. tasks[t] \in TaskRecord /\ tasks'[t] = new
      /\ \A u \in Task \ {t} : tasks'[u] = tasks[u]
  BY DEF TypeOK, Moves, TaskRecord
<1>2. event(t, kind) = EventOf(new, kind) /\ EventOf(new, kind) \in agentEvents'
  BY DEF Moves, event
<1>3. \A k : EventOf(new, k) = EventOf(tasks[t], k)
  BY DEF Moves
<1>4. Told(tasks[t], agentEvents) /\ Answered(tasks[t])
  BY DEF Evidenced
<1>5. agentEvents \subseteq agentEvents'
  BY DEF Moves
<1>6. Told(new, agentEvents')
  <2>1. tasks[t].state # "NONE" /\ new.run = tasks[t].run
        /\ new.delegation = tasks[t].delegation
    BY DEF Moves
  <2>2. new.run \in Run /\ new.delegation \in DelegationId
        /\ EventOf(new, "delegation-proposed") \in agentEvents'
        /\ EventOf(new, "delegation-offered") \in agentEvents'
    BY <2>1, <1>4, <1>3, <1>5 DEF Told
  <2>3. new.answer # "none" => EventOf(new, "result-submitted") \in agentEvents'
    <3>1. CASE new.answer = tasks[t].answer
      BY <3>1, <2>1, <1>4, <1>3, <1>5 DEF Told
    <3>2. CASE new.state = "SUBMITTED"
      <4>1. kind = "result-submitted"
        BY <3>2 DEF Moves
      <4>2. QED
        BY <4>1, <1>2
    <3>3. QED
      BY <3>1, <3>2 DEF Moves
  <2>4. /\ new.state = "ACCEPTED_RESULT" => EventOf(new, "result-accepted") \in agentEvents'
        /\ new.state = "REJECTED_RESULT" => EventOf(new, "result-rejected") \in agentEvents'
        /\ new.state = "CANCELLED" => EventOf(new, "delegation-cancelled") \in agentEvents'
    BY <1>2 DEF Moves
  <2>5. QED
    BY <2>2, <2>3, <2>4 DEF Told
<1>7. ASSUME NEW u \in Task PROVE Told(tasks'[u], agentEvents') /\ Answered(tasks'[u])
  <2>1. CASE u = t
    BY <2>1, <1>1, <1>6 DEF Moves
  <2>2. CASE u # t
    BY <2>2, <1>1, <1>5 DEF Evidenced, Told
  <2>3. QED
    BY <2>1, <2>2
<1>8. ASSUME NEW e \in agentEvents' PROVE \E u \in Task : About(e, tasks'[u])
  <2>1. CASE e \in agentEvents
    <3>1. PICK u \in Task : About(e, tasks[u])
      BY <2>1 DEF Evidenced
    <3>2. CASE u = t
      <4>1. Bears(new, e.kind)
        BY <3>1, <3>2, <1>1, <1>4, BearsKept DEF About
      <4>2. e = EventOf(new, e.kind)
        BY <3>1, <3>2, <1>3 DEF About
      <4>3. QED
        BY <4>1, <4>2, <1>1 DEF About
    <3>3. CASE u # t
      BY <3>1, <3>3, <1>1
    <3>4. QED
      BY <3>2, <3>3
  <2>2. CASE e = event(t, kind)
    <3>1. e = EventOf(new, kind) /\ e.kind = kind
      BY <2>2, <1>2
    <3>2. new.state # "NONE"
      BY <1>1, Backwards DEF Moves, TaskRecord
    <3>4. Bears(new, kind)
      BY <3>2 DEF Bears, Moves, Answered
    <3>3. QED
      BY <3>1, <3>4, <1>1 DEF About
  <2>3. QED
    BY <2>1, <2>2 DEF Moves
<1>9. QED
  BY <1>7, <1>8 DEF Evidenced

-----------------------------------------------------------------------------
(* The steps that move a task.                                              *)

\* A transition that the service admits, with the event the route appends.
LEMMA TransitionMoves ==
    ASSUME TypeOK, Evidenced, NEW t \in Task, NEW state, mayBecome(t, state),
           tasks[t].state # "NONE", state # "SUBMITTED",
           transitionTask(t, state), NEW kind, append(t, kind),
           state = "ACCEPTED_RESULT" <=> kind = "result-accepted",
           state = "REJECTED_RESULT" <=> kind = "result-rejected",
           state = "CANCELLED" <=> kind = "delegation-cancelled",
           kind # "result-submitted"
    PROVE  \E new \in TaskRecord : Moves(t, new, kind) /\ new.state = state
<1> DEFINE new == [tasks[t] EXCEPT !.state = state]
<1>1. tasks[t] \in TaskRecord /\ Answered(tasks[t])
  BY DEF TypeOK, TaskRecord, Evidenced
<1>2. state \in DOMAIN DelegatedTaskTransitions \ {"NONE"}
      /\ tasks[t].state \in DOMAIN DelegatedTaskTransitions
  BY <1>1, Backwards DEF mayBecome, TaskRecord
<1>3. new \in TaskRecord /\ new.state = state /\ new.run = tasks[t].run
      /\ new.delegation = tasks[t].delegation /\ new.answer = tasks[t].answer
  BY <1>1, <1>2 DEF TaskRecord
<1>4. state \in {"ACCEPTED", "RUNNING"} => tasks[t].state \in {"OFFERED", "ACCEPTED"}
  BY <1>2 DEF mayBecome, DelegatedTaskTransitions
<1>5. Answered(new)
  BY <1>1, <1>2, <1>3, <1>4, state # "SUBMITTED", Backwards
     DEF Answered, mayBecome, DelegatedTaskTransitions
<1>6. tasks' = [tasks EXCEPT ![t] = new]
  BY <1>1 DEF transitionTask, TypeOK, TaskRecord
<1>7. agentEvents' = agentEvents \cup {event(t, kind)}
  BY DEF append
<1> HIDE DEF new
<1>8. Moves(t, new, kind)
  BY <1>3, <1>5, <1>6, <1>7, state # "SUBMITTED" DEF Moves, mayBecome
<1>9. QED
  BY <1>3, <1>8

\* A submission that the service admits.
LEMMA SubmissionMoves ==
    ASSUME TypeOK, Evidenced, NEW t \in Task, mayBecome(t, "SUBMITTED"),
           NEW answer \in Answers \ {"none"}, tasks' = submitted(t, answer),
           append(t, "result-submitted")
    PROVE  /\ tasks[t].answer = "none"
           /\ \E new \in TaskRecord : Moves(t, new, "result-submitted") /\ new.state = "SUBMITTED"
<1> DEFINE new == [tasks[t] EXCEPT !.state = "SUBMITTED", !.answer = answer]
<1>1. tasks[t] \in TaskRecord /\ Answered(tasks[t])
  BY DEF TypeOK, TaskRecord, Evidenced
<1>2. tasks[t].state = "RUNNING"
  BY <1>1, Backwards DEF mayBecome, TaskRecord
<1>3. new \in TaskRecord /\ new.state = "SUBMITTED" /\ new.run = tasks[t].run
      /\ new.delegation = tasks[t].delegation /\ new.answer = answer
  BY <1>1 DEF TaskRecord, DelegatedTaskTransitions
<1>4. tasks' = [tasks EXCEPT ![t] = new]
  BY <1>1 DEF submitted, TypeOK, TaskRecord
<1>5. agentEvents' = agentEvents \cup {event(t, "result-submitted")}
  BY DEF append
<1> HIDE DEF new
<1>6. Moves(t, new, "result-submitted")
  BY <1>2, <1>3, <1>4, <1>5 DEF Moves, mayBecome, Answered
<1>7. QED
  BY <1>1, <1>2, <1>3, <1>6 DEF Answered

-----------------------------------------------------------------------------
(* Type correctness.                                                        *)

LEMMA InitTyped == Init => TypeOK
BY DelegationAssumption
   DEF Init, TypeOK, AgentRunTransitions, DelegatedTaskTransitions, NoTask, NoExecution, Answers

\* The runs and the events that a resumption and an append leave.
LEMMA ResumedTyped ==
    ASSUME TypeOK, NEW t \in Task, tasks[t].run \in Run, resumeDelegator(t)
    PROVE  runs' \in [Run -> DOMAIN AgentRunTransitions]
BY DEF TypeOK, resumeDelegator, AgentRunTransitions

LEMMA AppendedTyped ==
    ASSUME TypeOK, NEW t \in Task, tasks[t].run \in Run, tasks[t].delegation \in DelegationId,
           NEW kind \in ActiveKinds \cup TerminalEventKinds, append(t, kind)
    PROVE  agentEvents' \subseteq AgentEvent
<1>1. event(t, kind) \in AgentEvent
  BY DEF event, AgentEvent
<1>2. QED
  BY <1>1 DEF append, TypeOK

\* A task that has moved is well typed.
LEMMA MovedTyped ==
    ASSUME TypeOK, NEW t \in Task, NEW new \in TaskRecord, NEW kind, Moves(t, new, kind)
    PROVE  tasks' \in [Task -> TaskRecord]
BY DEF TypeOK, Moves, TaskRecord

\* Where a task that is not NONE comes from.
LEMMA Proposed ==
    ASSUME TypeOK, Evidenced, NEW t \in Task, tasks[t].state # "NONE"
    PROVE  /\ tasks[t] \in TaskRecord
           /\ tasks[t].run \in Run
           /\ tasks[t].delegation \in DelegationId
BY DEF TypeOK, Evidenced, Told, TaskRecord

\* A service admits no transition of a task that was not proposed but OFFERED.
LEMMA Existing ==
    ASSUME NEW t \in Task, NEW state, mayBecome(t, state), state # "OFFERED"
    PROVE  tasks[t].state # "NONE"
BY DEF mayBecome, DelegatedTaskTransitions

LEMMA Delegated ==
    ASSUME TypeOK, Evidenced, NEW r \in Run, NEW t \in Task, NEW d \in DelegationId,
           delegate(r, t, d)
    PROVE  TypeOK' /\ Evidenced'
<1> DEFINE new == [NoTask EXCEPT !.state = "OFFERED", !.run = r, !.delegation = d]
<1>1. new \in TaskRecord /\ new.state = "OFFERED" /\ new.run = r /\ new.delegation = d
      /\ new.answer = "none"
  BY DEF NoTask, TaskRecord, DelegatedTaskTransitions, Answers
<1>2. tasks' = [tasks EXCEPT ![t] = new] /\ tasks[t].state = "NONE"
  BY DEF delegate
<1> HIDE DEF new
<1>3. EventOf(new, "delegation-proposed") = [kind |-> "delegation-proposed", run |-> r, delegation |-> d]
      /\ EventOf(new, "delegation-offered") = [kind |-> "delegation-offered", run |-> r, delegation |-> d]
  BY <1>1 DEF EventOf
<1>4. agentEvents' = agentEvents \cup {EventOf(new, "delegation-proposed"),
                                       EventOf(new, "delegation-offered")}
  BY <1>3 DEF delegate
<1>5. tasks'[t] = new /\ \A u \in Task \ {t} : tasks'[u] = tasks[u]
  BY <1>2 DEF TypeOK
<1>6. TypeOK'
  <2>1. tasks' \in [Task -> TaskRecord]
    BY <1>1, <1>2 DEF TypeOK, TaskRecord
  <2>2. {EventOf(new, "delegation-proposed"), EventOf(new, "delegation-offered")} \subseteq AgentEvent
    BY <1>3 DEF AgentEvent, ActiveKinds
  <2>3. runs' \in [Run -> DOMAIN AgentRunTransitions]
    BY DEF TypeOK, delegate, AgentRunTransitions
  <2>4. QED
    BY <1>4, <2>1, <2>2, <2>3 DEF TypeOK, delegate, TaskRecord
<1>7. ASSUME NEW u \in Task PROVE Told(tasks'[u], agentEvents') /\ Answered(tasks'[u])
  <2>1. CASE u = t
    BY <2>1, <1>1, <1>4, <1>5 DEF Told, Answered
  <2>2. CASE u # t
    <3>1. tasks'[u] = tasks[u] /\ Told(tasks[u], agentEvents) /\ Answered(tasks[u])
      BY <2>2, <1>5 DEF Evidenced
    <3>2. agentEvents \subseteq agentEvents'
      BY <1>4
    <3>3. QED
      BY <3>1, <3>2 DEF Told
  <2>3. QED
    BY <2>1, <2>2
<1>8. ASSUME NEW e \in agentEvents' PROVE \E u \in Task : About(e, tasks'[u])
  <2>1. CASE e \in agentEvents
    <3>1. PICK u \in Task : About(e, tasks[u])
      BY <2>1 DEF Evidenced
    <3>2. u # t
      BY <3>1, <1>2 DEF About, Bears
    <3>3. QED
      BY <3>1, <3>2, <1>5
  <2>2. CASE e \in {EventOf(new, "delegation-proposed"), EventOf(new, "delegation-offered")}
    <3>1. e.kind \in {"delegation-proposed", "delegation-offered"} /\ e = EventOf(new, e.kind)
      BY <2>2 DEF EventOf
    <3>2. Bears(new, e.kind)
      BY <3>1, <1>1 DEF Bears
    <3>3. QED
      BY <3>1, <3>2, <1>5 DEF About
  <2>3. QED
    BY <2>1, <2>2, <1>4
<1>9. Evidenced'
  BY <1>7, <1>8 DEF Evidenced
<1>10. QED
  BY <1>6, <1>9

-----------------------------------------------------------------------------
(* Every step keeps types and evidence.                                     *)

\* What is left to show of the types when runs, tasks and events are done.
LEMMA TypedFrom ==
    ASSUME TypeOK, runs' \in [Run -> DOMAIN AgentRunTransitions],
           tasks' \in [Task -> TaskRecord], agentEvents' \subseteq AgentEvent,
           UNCHANGED <<revoked, records, callers>>
    PROVE  TypeOK'
BY DEF TypeOK, TaskRecord

\* Only a run, a record, a caller or a certificate changes.
LEMMA QuietEvidence ==
    ASSUME Evidenced, UNCHANGED <<tasks, agentEvents>>
    PROVE  Evidenced'
BY DEF Evidenced

\* A transition of a task, and what it does to its delegator.
LEMMA TransitionKeeps ==
    ASSUME TypeOK, Evidenced, NEW t \in Task, NEW state, mayBecome(t, state),
           state \notin {"OFFERED", "SUBMITTED"}, transitionTask(t, state),
           NEW kind \in ActiveKinds \cup TerminalEventKinds, append(t, kind),
           state = "ACCEPTED_RESULT" <=> kind = "result-accepted",
           state = "REJECTED_RESULT" <=> kind = "result-rejected",
           state = "CANCELLED" <=> kind = "delegation-cancelled",
           kind # "result-submitted",
           UNCHANGED runs \/ resumeDelegator(t)
    PROVE  /\ Evidenced'
           /\ runs' \in [Run -> DOMAIN AgentRunTransitions]
           /\ tasks' \in [Task -> TaskRecord]
           /\ agentEvents' \subseteq AgentEvent
<1>1. tasks[t].state # "NONE"
  BY Existing
<1>2. tasks[t] \in TaskRecord /\ tasks[t].run \in Run /\ tasks[t].delegation \in DelegationId
  BY <1>1, Proposed
<1>3. PICK new \in TaskRecord : Moves(t, new, kind)
  BY <1>1, TransitionMoves
<1>4. Evidenced' /\ tasks' \in [Task -> TaskRecord]
  BY <1>3, MovedEvidence, MovedTyped
<1>5. agentEvents' \subseteq AgentEvent
  BY <1>2, AppendedTyped
<1>6. runs' \in [Run -> DOMAIN AgentRunTransitions]
  BY <1>2, ResumedTyped DEF TypeOK
<1>7. QED
  BY <1>4, <1>5, <1>6

\* A submission.
LEMMA SubmissionKeeps ==
    ASSUME TypeOK, Evidenced, NEW t \in Task, mayBecome(t, "SUBMITTED"),
           NEW answer \in Answers \ {"none"}, tasks' = submitted(t, answer),
           append(t, "result-submitted")
    PROVE  /\ Evidenced'
           /\ tasks' \in [Task -> TaskRecord]
           /\ agentEvents' \subseteq AgentEvent
<1>1. tasks[t].state # "NONE"
  BY Existing
<1>2. tasks[t].run \in Run /\ tasks[t].delegation \in DelegationId
  BY <1>1, Proposed
<1>3. PICK new \in TaskRecord : Moves(t, new, "result-submitted")
  BY SubmissionMoves
<1>4. "result-submitted" \in ActiveKinds
  BY DEF ActiveKinds
<1>5. agentEvents' \subseteq AgentEvent
  BY <1>2, <1>4, AppendedTyped
<1>6. QED
  BY <1>3, <1>5, MovedEvidence, MovedTyped

LEMMA RunStepKeeps ==
    ASSUME TypeOK, Evidenced, NEW r \in Run, runStep(r)
    PROVE  TypeOK' /\ Evidenced'
<1>1. ASSUME \/ admit(r) \/ startRun(r) \/ cancelRun(r)
             \/ delegateBeyondAuthority(r) \/ delegateWithoutBody(r)
      PROVE  TypeOK' /\ Evidenced'
  <2>1. Evidenced'
    BY <1>1, QuietEvidence DEF admit, startRun, cancelRun, delegateBeyondAuthority,
           delegateWithoutBody
  <2>2. runs' \in [Run -> DOMAIN AgentRunTransitions]
    BY <1>1 DEF TypeOK, admit, startRun, cancelRun, delegateBeyondAuthority,
           delegateWithoutBody, AgentRunTransitions
  <2>3. QED
    BY <1>1, <2>1, <2>2 DEF TypeOK, admit, startRun, cancelRun, delegateBeyondAuthority,
           delegateWithoutBody
<1>2. ASSUME NEW t \in Task, NEW d \in DelegationId, delegate(r, t, d)
      PROVE  TypeOK' /\ Evidenced'
  BY <1>2, Delegated
<1>3. QED
  BY <1>1, <1>2 DEF runStep

LEMMA TaskStepKeeps ==
    ASSUME TypeOK, Evidenced, NEW t \in Task, taskStep(t)
    PROVE  TypeOK' /\ Evidenced'
<1> USE DEF ActiveKinds, TerminalEventKinds
<1>1. CASE acceptDelegation(t)
  BY <1>1, TransitionKeeps, TypedFrom DEF acceptDelegation
<1>2. CASE runDelegation(t)
  <2>1. /\ Evidenced'
        /\ runs' \in [Run -> DOMAIN AgentRunTransitions]
        /\ tasks' \in [Task -> TaskRecord]
        /\ agentEvents' \subseteq AgentEvent
    BY <1>2, TransitionKeeps DEF runDelegation
  <2>2. records' \in [Task -> [state : PublicStates \cup {"NONE"}, schemaBound : BOOLEAN,
                               validation : ValidationOutcomes \cup {"NONE"}]]
    <3>1. PICK schemaBound \in BOOLEAN : records' = [records EXCEPT ![t] =
              [NoExecution EXCEPT !.state = "RUNNING", !.schemaBound = schemaBound]]
      BY <1>2 DEF runDelegation
    <3>2. [NoExecution EXCEPT !.state = "RUNNING", !.schemaBound = schemaBound]
              \in [state : PublicStates \cup {"NONE"}, schemaBound : BOOLEAN,
                   validation : ValidationOutcomes \cup {"NONE"}]
      BY DEF NoExecution, PublicStates
    <3>3. QED
      BY <3>1, <3>2 DEF TypeOK
  <2>3. callers' \in [Task -> {"none", "polling", "typed", "unvalidated", "not ready"}]
    BY <1>2 DEF runDelegation, TypeOK
  <2>4. revoked' \subseteq Task
    BY <1>2 DEF runDelegation, TypeOK
  <2>5. QED
    BY <2>1, <2>2, <2>3, <2>4 DEF TypeOK, TaskRecord
<1>3. CASE submitResult(t)
  <2>1. "delegatee" \in Answers \ {"none"}
    BY DEF Answers
  <2>2. Evidenced' /\ tasks' \in [Task -> TaskRecord] /\ agentEvents' \subseteq AgentEvent
    BY <1>3, <2>1, SubmissionKeeps DEF submitResult
  <2>3. QED
    BY <1>3, <2>2, TypedFrom DEF submitResult, TypeOK
<1>4. CASE acceptResult(t)
  BY <1>4, TransitionKeeps, TypedFrom DEF acceptResult
<1>5. CASE rejectResult(t)
  BY <1>5, TransitionKeeps, TypedFrom DEF rejectResult
<1>6. CASE cancelDelegation(t)
  <2>1. /\ Evidenced'
        /\ runs' \in [Run -> DOMAIN AgentRunTransitions]
        /\ tasks' \in [Task -> TaskRecord]
        /\ agentEvents' \subseteq AgentEvent
    <3>1. CASE mayBecome(t, "CANCELLED")
      BY <1>6, <3>1, TransitionKeeps DEF cancelDelegation
    <3>2. CASE ~ mayBecome(t, "CANCELLED")
      BY <1>6, <3>2, QuietEvidence DEF cancelDelegation, TypeOK, TaskRecord
    <3>3. QED
      BY <3>1, <3>2
  <2>2. QED
    BY <1>6, <2>1 DEF cancelDelegation, TypeOK, TaskRecord
<1>7. CASE cancelExecution(t)
  <2>1. Evidenced'
    BY <1>7, QuietEvidence DEF cancelExecution
  <2>2. QED
    BY <1>7, <2>1 DEF cancelExecution, TypeOK, PublicStates
<1>8. CASE fetchTypedResult(t)
  <2>1. Evidenced'
    BY <1>8, QuietEvidence DEF fetchTypedResult
  <2>2. QED
    BY <1>8, <2>1 DEF fetchTypedResult, TypeOK
<1>9. ASSUME NEW state \in TerminalStates, NEW answer \in Answers \ {"none"},
             executionEnds(t, state, answer)
      PROVE  TypeOK' /\ Evidenced'
  <2>1. Evidenced' /\ tasks' \in [Task -> TaskRecord] /\ agentEvents' \subseteq AgentEvent
    <3>1. CASE mayBecome(t, "SUBMITTED")
      BY <1>9, <3>1, SubmissionKeeps DEF executionEnds
    <3>2. CASE ~ mayBecome(t, "SUBMITTED")
      BY <1>9, <3>2, QuietEvidence DEF executionEnds, TypeOK, TaskRecord
    <3>3. QED
      BY <3>1, <3>2
  <2>2. records' \in [Task -> [state : PublicStates \cup {"NONE"}, schemaBound : BOOLEAN,
                               validation : ValidationOutcomes \cup {"NONE"}]]
    BY <1>9 DEF executionEnds, TypeOK, PublicStates, TerminalStates
  <2>3. QED
    BY <1>9, <2>1, <2>2 DEF executionEnds, TypeOK, TaskRecord
<1>10. CASE background(t)
  BY <1>10, <1>9 DEF background, routeReturns, routeThrows, TerminalStates, Answers
<1>11. QED
  BY <1>1, <1>2, <1>3, <1>4, <1>5, <1>6, <1>7, <1>8, <1>10 DEF taskStep

-----------------------------------------------------------------------------
(* The delegator.                                                           *)

\* A delegation that does not block is over, if its id is nobody else's.
LEMMA UnblockedIsOver ==
    ASSUME TypeOK, Evidenced, NEW t \in Task, tasks[t].state # "NONE", unshared(t),
           ~ blocks(tasks[t].delegation)
    PROVE  tasks[t].state \in ResolvedStates
<1> DEFINE d == tasks[t].delegation
<1>1. EventOf(tasks[t], "delegation-offered") \in agentEvents
  BY DEF Evidenced, Told
<1>2. "delegation-offered" \in kindsOf(d) \cap ActiveKinds
  BY <1>1 DEF kindsOf, EventOf, ActiveKinds
<1>3. PICK kind \in TerminalEventKinds : kind \in kindsOf(d)
  BY <1>2 DEF blocks
<1>4. PICK e \in agentEvents : e.delegation = d /\ e.kind = kind
  BY <1>3 DEF kindsOf
<1>5. PICK u \in Task : About(e, tasks[u])
  BY DEF Evidenced
<1>6. tasks[u].delegation = d
  BY <1>4, <1>5 DEF About, EventOf
<1>7. u = t
  BY <1>6 DEF unshared
<1>8. QED
  BY <1>3, <1>4, <1>5, <1>7 DEF About, Bears, TerminalEventKinds, ResolvedStates

\* A sibling that blocks is a task of the run that is under way.
LEMMA BlockersAreActive ==
    ASSUME TypeOK, Evidenced, NEW r \in Run, NEW d, ~ canResumeFromDelegating(r, d)
    PROVE  \E u \in tasksOf(r) : tasks[u].delegation # d /\ tasks[u].state \in ActiveStates
<1>1. PICK s \in siblings(r, d) : blocks(s)
  BY DEF canResumeFromDelegating
<1>2. PICK e \in agentEvents : e.delegation = s /\ e.run = r
  BY <1>1 DEF siblings
<1>3. PICK u \in Task : About(e, tasks[u])
  BY DEF Evidenced
<1>4. tasks[u].run = r /\ tasks[u].delegation = s /\ tasks[u].state # "NONE" /\ s # d
  BY <1>1, <1>2, <1>3 DEF About, EventOf, Bears, siblings
<1>5. tasks[u].state \notin ResolvedStates
  <2>1. Told(tasks[u], agentEvents)
    BY DEF Evidenced
  <2>2. \A kind : EventOf(tasks[u], kind) \in agentEvents => kind \in kindsOf(s)
    BY <1>4 DEF kindsOf, EventOf
  <2>3. \A kind \in TerminalEventKinds : EventOf(tasks[u], kind) \notin agentEvents
    BY <1>1, <2>2 DEF blocks
  <2>4. QED
    BY <1>4, <2>1, <2>3 DEF Told, ResolvedStates, TerminalEventKinds
<1>6. tasks[u].state \in ActiveStates
  BY <1>4, <1>5 DEF TypeOK, ResolvedStates, ActiveStates, DelegatedTaskTransitions
<1>7. QED
  BY <1>4, <1>6 DEF tasksOf

\* What one transition leaves of the tasks.
LEMMA TransitionFrame ==
    ASSUME TypeOK, NEW t \in Task, NEW state, transitionTask(t, state)
    PROVE  /\ tasks'[t].state = state /\ tasks'[t].run = tasks[t].run
           /\ tasks'[t].answer = tasks[t].answer
           /\ \A u \in Task \ {t} : tasks'[u] = tasks[u]
BY DEF TypeOK, transitionTask

\* A task that stays open, for the same run.
StaysOpen(t) ==
    tasks[t].state \in ActiveStates \cup {"REJECTED_RESULT"} =>
        /\ tasks'[t].state \in ActiveStates \cup {"REJECTED_RESULT"}
        /\ tasks'[t].run = tasks[t].run

LEMMA StillOpen ==
    ASSUME \A t \in Task : StaysOpen(t), NEW r \in Run, hasOpenTask(r)
    PROVE  hasOpenTask(r)'
BY DEF StaysOpen, hasOpenTask, tasksOf

\* A task that is over lets its delegator go, unless another is under way.
LEMMA ResolutionStrandsNobody ==
    ASSUME TypeOK, Evidenced, NEW t \in Task,
           NEW state, transitionTask(t, state), resumeDelegator(t),
           NEW r \in Run, hasOpenTask(r), runs'[r] = "DELEGATING"
    PROVE  hasOpenTask(r)'
<1> DEFINE Open(u) == tasks[u].state \in ActiveStates \cup {"REJECTED_RESULT"}
<1>1. SUFFICES \E u \in tasksOf(r) \ {t} : Open(u)
  BY TransitionFrame DEF hasOpenTask, tasksOf
<1>2. CASE r = tasks[t].run
  <2>1. ~ canResumeFromDelegating(r, tasks[t].delegation)
    <3>1. ASSUME canResumeFromDelegating(r, tasks[t].delegation), mayTransition(r, "RUNNING")
          PROVE  FALSE
      <4>1. runs' = [runs EXCEPT ![r] = "RUNNING"]
        BY <1>2, <3>1 DEF resumeDelegator
      <4>2. QED
        BY <4>1 DEF TypeOK
    <3>2. UNCHANGED runs
      BY <1>2, <3>1 DEF resumeDelegator
    <3>3. mayTransition(r, "RUNNING")
      BY <3>2 DEF mayTransition, AgentRunTransitions
    <3>4. QED
      BY <3>1, <3>3
  <2>2. PICK u \in tasksOf(r) :
            tasks[u].delegation # tasks[t].delegation /\ tasks[u].state \in ActiveStates
    BY <2>1, BlockersAreActive
  <2>3. QED
    BY <2>2
<1>3. CASE r # tasks[t].run
  BY <1>3 DEF hasOpenTask, tasksOf
<1>4. QED
  BY <1>2, <1>3

\* No request about a run touches a task that is open.
LEMMA RunsStrandNobody ==
    ASSUME TypeOK, NEW q \in Run, runStep(q), NEW r \in Run, hasOpenTask(r)
    PROVE  hasOpenTask(r)'
<1>1. ASSUME NEW u \in Task, tasks[u].state # "NONE" PROVE tasks'[u] = tasks[u]
  BY <1>1 DEF runStep, admit, startRun, cancelRun, delegateBeyondAuthority,
              delegateWithoutBody, delegate, TypeOK
<1>2. \A u \in Task : StaysOpen(u)
  BY <1>1 DEF StaysOpen, ActiveStates
<1>3. QED
  BY <1>2, StillOpen

LEMMA TasksStrandNobody ==
    ASSUME TypeOK, Evidenced, NEW t \in Task, taskStep(t),
           NEW r \in Run, hasOpenTask(r), runs'[r] = "DELEGATING"
    PROVE  hasOpenTask(r)'
<1>1. ASSUME NEW state \in ActiveStates \cup {"REJECTED_RESULT"}, transitionTask(t, state)
      PROVE  hasOpenTask(r)'
  <2>1. \A u \in Task : StaysOpen(u)
    BY <1>1, TransitionFrame DEF StaysOpen
  <2>2. QED
    BY <2>1, StillOpen
<1>2. ASSUME NEW answer, tasks' = submitted(t, answer) PROVE hasOpenTask(r)'
  <2> DEFINE new == [tasks[t] EXCEPT !.state = "SUBMITTED", !.answer = answer]
  <2>1. tasks[t] \in TaskRecord
    BY DEF TypeOK, TaskRecord
  <2>2. new.state = "SUBMITTED" /\ new.run = tasks[t].run
    BY <2>1 DEF TaskRecord
  <2>3. tasks' = [tasks EXCEPT ![t] = new]
    BY <1>2, <2>1 DEF submitted, TypeOK, TaskRecord
  <2> HIDE DEF new
  <2>4. \A u \in Task : StaysOpen(u)
    BY <2>2, <2>3 DEF StaysOpen, ActiveStates, TypeOK
  <2>5. QED
    BY <2>4, StillOpen
<1>3. ASSUME UNCHANGED tasks PROVE hasOpenTask(r)'
  BY <1>3 DEF hasOpenTask, tasksOf
<1>4. CASE acceptDelegation(t) \/ runDelegation(t) \/ rejectResult(t)
  BY <1>1, <1>4 DEF acceptDelegation, runDelegation, rejectResult, ActiveStates
<1>5. CASE acceptResult(t)
  BY <1>5, ResolutionStrandsNobody DEF acceptResult
<1>6. CASE cancelDelegation(t)
  BY <1>3, <1>6, ResolutionStrandsNobody DEF cancelDelegation
<1>7. CASE submitResult(t) \/ background(t)
  BY <1>2, <1>3, <1>7 DEF submitResult, background, routeReturns, routeThrows, executionEnds
<1>8. CASE cancelExecution(t) \/ fetchTypedResult(t)
  BY <1>3, <1>8 DEF cancelExecution, fetchTypedResult
<1>9. QED
  BY <1>4, <1>5, <1>6, <1>7, <1>8 DEF taskStep

-----------------------------------------------------------------------------
(* Certificates.                                                            *)

\* A task that is answered or over stays so.
LEMMA TaskStepRevokes ==
    ASSUME TypeOK, Evidenced, RevokedAreOver, NEW t \in Task, taskStep(t)
    PROVE  RevokedAreOver'
<1> DEFINE Over(state) == state \in ResolvedStates \cup {"SUBMITTED"}
<1>0. revoked \subseteq Task /\ \A u \in Task : tasks[u].state \in DOMAIN DelegatedTaskTransitions
  BY DEF TypeOK
<1>1. ASSUME UNCHANGED revoked, \A u \in Task : Over(tasks[u].state) => Over(tasks'[u].state)
      PROVE  RevokedAreOver'
  BY <1>0, <1>1 DEF RevokedAreOver
<1>2. ASSUME NEW state, mayBecome(t, state), transitionTask(t, state)
      PROVE  \A u \in Task : Over(tasks[u].state) => Over(tasks'[u].state)
  <2>1. Over(tasks[t].state) => Over(state)
    BY <1>0, <1>2, Backwards DEF mayBecome
  <2>2. QED
    BY <1>2, <2>1, TransitionFrame
<1>3. ASSUME NEW answer, tasks' = submitted(t, answer)
      PROVE  \A u \in Task : Over(tasks[u].state) => Over(tasks'[u].state)
  <2>1. tasks'[t].state = "SUBMITTED" /\ \A u \in Task \ {t} : tasks'[u] = tasks[u]
    BY <1>3 DEF submitted, TypeOK
  <2>2. QED
    BY <2>1
<1>4. CASE acceptDelegation(t) \/ runDelegation(t) \/ acceptResult(t) \/ rejectResult(t)
  BY <1>1, <1>2, <1>4 DEF acceptDelegation, runDelegation, acceptResult, rejectResult
<1>5. CASE submitResult(t) \/ background(t)
  BY <1>1, <1>3, <1>5 DEF submitResult, background, routeReturns, routeThrows, executionEnds
<1>6. CASE cancelExecution(t) \/ fetchTypedResult(t)
  BY <1>1, <1>6 DEF cancelExecution, fetchTypedResult
<1>7. CASE cancelDelegation(t)
  <2>1. revoked' = revoked \cup {t} /\ tasks[t].state # "NONE"
    BY <1>7 DEF cancelDelegation
  <2>2. CASE mayBecome(t, "CANCELLED")
    <3>1. transitionTask(t, "CANCELLED")
      BY <1>7, <2>2 DEF cancelDelegation
    <3>2. tasks'[t].state = "CANCELLED"
      BY <3>1, TransitionFrame
    <3>3. QED
      BY <1>0, <1>2, <2>1, <2>2, <3>1, <3>2 DEF RevokedAreOver, ResolvedStates
  <2>3. CASE ~ mayBecome(t, "CANCELLED")
    <3>1. UNCHANGED tasks
      BY <1>7, <2>3 DEF cancelDelegation
    <3>2. Over(tasks[t].state)
      BY <1>0, <2>1, <2>3 DEF mayBecome, DelegatedTaskTransitions, ResolvedStates
    <3>3. QED
      BY <1>0, <2>1, <3>1, <3>2 DEF RevokedAreOver
  <2>4. QED
    BY <2>2, <2>3
<1>8. QED
  BY <1>4, <1>5, <1>6, <1>7 DEF taskStep

-----------------------------------------------------------------------------
(* The theorems.                                                            *)

LEMMA InductiveInit == Init => Inductive
<1> SUFFICES ASSUME Init PROVE Inductive
  OBVIOUS
<1>1. Evidenced
  BY DEF Init, Evidenced, Told, Answered, NoTask
<1>2. RevokedAreOver
  BY DEF Init, RevokedAreOver
<1>3. QED
  BY <1>1, <1>2, InitTyped DEF Inductive

LEMMA InductiveKept ==
    ASSUME Inductive, [Next]_vars
    PROVE  Inductive'
<1> USE DEF Inductive
<1>1. ASSUME NEW r \in Run, runStep(r) PROVE Inductive'
  <2>1. TypeOK' /\ Evidenced'
    BY <1>1, RunStepKeeps
  <2>2. RevokedAreOver'
    <3>1. UNCHANGED revoked
      BY <1>1 DEF runStep, admit, startRun, cancelRun, delegateBeyondAuthority, delegate,
                  delegateWithoutBody
    <3>2. ASSUME NEW u \in Task, tasks[u].state # "NONE" PROVE tasks'[u] = tasks[u]
      BY <1>1, <3>2 DEF runStep, admit, startRun, cancelRun, delegateBeyondAuthority, delegate,
                        delegateWithoutBody, TypeOK
    <3>3. QED
      BY <3>1, <3>2 DEF RevokedAreOver, ResolvedStates, TypeOK
  <2>3. QED
    BY <2>1, <2>2
<1>2. ASSUME NEW t \in Task, taskStep(t) PROVE Inductive'
  BY <1>2, TaskStepKeeps, TaskStepRevokes
<1>3. CASE UNCHANGED vars
  <2>1. TypeOK' /\ Evidenced'
    BY <1>3 DEF vars, TypeOK, Evidenced
  <2>2. RevokedAreOver'
    BY <1>3 DEF vars, RevokedAreOver
  <2>3. QED
    BY <2>1, <2>2
<1>4. QED
  BY <1>1, <1>2, <1>3 DEF Next

LEMMA InductiveHolds == Spec => []Inductive
BY InductiveInit, InductiveKept, PTL DEF Spec

\* Every reachable state is well typed: no route takes a run or a task out of its
\* life cycle, for any runs, tasks and ids.
THEOREM DelegationTypeCorrect == Spec => []TypeOK
<1>1. Inductive => TypeOK
  BY DEF Inductive
<1>2. QED
  BY <1>1, InductiveHolds, PTL

\* The evidence of a delegation tells what became of its task, and a task whose
\* certificate is revoked is answered or over (cancelDelegation, executionEnds).
THEOREM EvidenceTrue == Spec => []EvidenceTellsTheTask
<1>1. ASSUME Inductive PROVE EvidenceTellsTheTask
  <2>1. ASSUME NEW t \in Task, tasks[t].state # "NONE", unshared(t),
               NEW kind, kind \in kindsOf(tasks[t].delegation)
        PROVE  Bears(tasks[t], kind)
    <3>1. PICK e \in agentEvents : e.delegation = tasks[t].delegation /\ e.kind = kind
      BY <2>1 DEF kindsOf
    <3>2. PICK u \in Task : About(e, tasks[u])
      BY <1>1 DEF Inductive, Evidenced
    <3>3. u = t
      BY <2>1, <3>1, <3>2 DEF About, EventOf, unshared
    <3>4. QED
      BY <3>1, <3>2, <3>3 DEF About
  <2>2. ASSUME NEW t \in Task, NEW kind, EventOf(tasks[t], kind) \in agentEvents
        PROVE  kind \in kindsOf(tasks[t].delegation)
    BY <2>2 DEF kindsOf, EventOf
  <2>3. \A t \in Task : Told(tasks[t], agentEvents)
    BY <1>1 DEF Inductive, Evidenced
  <2>4. \A t \in Task :
            tasks[t].state # "NONE" /\ unshared(t) =>
                LET kinds == kindsOf(tasks[t].delegation)
                IN  /\ "result-submitted" \in kinds <=> tasks[t].answer # "none"
                    /\ "result-accepted" \in kinds <=> tasks[t].state = "ACCEPTED_RESULT"
                    /\ "result-rejected" \in kinds <=> tasks[t].state = "REJECTED_RESULT"
                    /\ "delegation-cancelled" \in kinds <=> tasks[t].state = "CANCELLED"
    BY <2>1, <2>2, <2>3 DEF Bears, Told
  <2>5. QED
    BY <1>1, <2>4 DEF EvidenceTellsTheTask, Inductive, RevokedAreOver
<1>2. QED
  BY <1>1, InductiveHolds, PTL

\* Whatever ends the last open task of a delegating run resumes the run, in
\* whatever order its delegations end and whichever ids they share
\* (canResumeFromDelegating, resumeDelegator).
THEOREM DelegatorsReturn == Spec => NoStrandedDelegator
<1>1. ASSUME Inductive, Next, NEW r \in Run, runs'[r] = "DELEGATING", hasOpenTask(r)
      PROVE  hasOpenTask(r)'
  BY <1>1, RunsStrandNobody, TasksStrandNobody DEF Next, Inductive
<1>2. ASSUME Inductive, [Next]_vars
      PROVE  [\A r \in Run :
                  runs'[r] = "DELEGATING" /\ hasOpenTask(r) => hasOpenTask(r)']_vars
  BY <1>1, <1>2
<1>3. QED
  BY <1>2, InductiveHolds, PTL DEF Spec, NoStrandedDelegator

\* No resolution of a task resumes a run that has another task under way
\* (canResumeFromDelegating).
THEOREM ResumptionsWait == Spec => ResumeWaitsForSiblings
<1>1. ASSUME Inductive, Next, NEW r \in Run, NEW t \in Task,
             runs[r] = "DELEGATING", runs'[r] = "RUNNING", tasks'[t] # tasks[t],
             NEW u \in tasksOf(r) \ {t}, unshared(u)
      PROVE  tasks'[u].state \notin ActiveStates
  <2>1. PICK x \in Task : acceptResult(x) \/ (cancelDelegation(x) /\ mayBecome(x, "CANCELLED"))
    <3>1. ASSUME NEW q \in Run, runStep(q) PROVE FALSE
      <4>1. CASE \/ admit(q) \/ startRun(q) \/ cancelRun(q)
                 \/ delegateBeyondAuthority(q) \/ delegateWithoutBody(q)
        BY <1>1, <4>1 DEF admit, startRun, cancelRun, delegateBeyondAuthority,
           delegateWithoutBody
      <4>2. CASE \E z \in Task, d \in DelegationId : delegate(q, z, d)
        BY <1>1, <4>2 DEF delegate, Inductive, TypeOK
      <4>3. QED
        BY <3>1, <4>1, <4>2 DEF runStep
    <3>2. ASSUME NEW x \in Task, taskStep(x), ~ acceptResult(x), ~ cancelDelegation(x)
          PROVE  FALSE
      BY <1>1, <3>2 DEF taskStep, acceptDelegation, runDelegation, submitResult, rejectResult,
                        cancelExecution, fetchTypedResult, background, routeReturns,
                        routeThrows, executionEnds
    <3>3. QED
      BY <1>1, <3>1, <3>2 DEF Next, cancelDelegation
  <2>2. /\ resumeDelegator(x)
        /\ tasks[x].state # "NONE"
        /\ \E state \in ResolvedStates : transitionTask(x, state)
    BY <2>1, Existing DEF acceptResult, cancelDelegation, ResolvedStates
  <2>3. x = t
    BY <1>1, <2>2, TransitionFrame DEF Inductive
  <2>4. tasks[t].run = r /\ canResumeFromDelegating(r, tasks[t].delegation)
    BY <1>1, <2>2, <2>3, Proposed DEF resumeDelegator, Inductive, TypeOK
  <2>5. u \in Task /\ tasks[u].run = r /\ tasks'[u] = tasks[u] /\ u # t
    BY <1>1, <2>2, <2>3, TransitionFrame DEF tasksOf, Inductive
  <2>6. SUFFICES ASSUME tasks[u].state # "NONE" PROVE tasks[u].state \in ResolvedStates
    BY <2>5 DEF ActiveStates, ResolvedStates
  <2>7. tasks[u].delegation # tasks[t].delegation
    BY <1>1, <2>5 DEF unshared
  <2>8. EventOf(tasks[u], "delegation-proposed") \in agentEvents
    BY <1>1, <2>5, <2>6 DEF Inductive, Evidenced, Told
  <2>9. tasks[u].delegation \in siblings(r, tasks[t].delegation)
    BY <2>5, <2>7, <2>8 DEF siblings, EventOf
  <2>10. ~ blocks(tasks[u].delegation)
    BY <2>4, <2>9 DEF canResumeFromDelegating
  <2>11. QED
    BY <1>1, <2>5, <2>6, <2>10, UnblockedIsOver DEF Inductive
<1>2. ASSUME Inductive, [Next]_vars
      PROVE  [\A r \in Run, t \in Task :
                  /\ runs[r] = "DELEGATING" /\ runs'[r] = "RUNNING"
                  /\ tasks'[t] # tasks[t]
                  => \A u \in tasksOf(r) \ {t} :
                         unshared(u) => tasks'[u].state \notin ActiveStates]_vars
  BY <1>1, <1>2
<1>3. QED
  BY <1>2, InductiveHolds, PTL DEF Spec, ResumeWaitsForSiblings

\* The first answer to a task counts, whoever hands in another (submitResult,
\* executionEnds).
THEOREM FirstAnswerCounts == Spec => AnswersAreFinal
<1>1. ASSUME Inductive, Next, NEW t \in Task, tasks[t].answer # "none"
      PROVE  tasks'[t].answer = tasks[t].answer
  <2>1. TypeOK /\ Evidenced
    BY <1>1 DEF Inductive
  <2>2. tasks[t].state # "NONE"
    BY <1>1, <2>1 DEF Evidenced, Answered
  <2>3. ASSUME NEW q \in Run, runStep(q) PROVE tasks'[t] = tasks[t]
    BY <2>1, <2>2, <2>3 DEF runStep, admit, startRun, cancelRun, delegateBeyondAuthority,
                            delegateWithoutBody, delegate, TypeOK
  <2>4. ASSUME NEW x \in Task, NEW state, transitionTask(x, state)
        PROVE  tasks'[t].answer = tasks[t].answer
    BY <2>1, <2>4, TransitionFrame
  <2>5. ASSUME NEW x \in Task, NEW answer \in Answers \ {"none"}, mayBecome(x, "SUBMITTED"),
               tasks' = submitted(x, answer), append(x, "result-submitted")
        PROVE  tasks'[t].answer = tasks[t].answer
    <3>1. x # t
      BY <1>1, <2>1, <2>5, SubmissionMoves
    <3>2. QED
      BY <2>1, <2>5, <3>1 DEF submitted, TypeOK
  <2>6. ASSUME NEW x \in Task, taskStep(x) PROVE tasks'[t].answer = tasks[t].answer
    BY <2>4, <2>5, <2>6
       DEF taskStep, acceptDelegation, runDelegation, submitResult, acceptResult, rejectResult,
           cancelDelegation, cancelExecution, fetchTypedResult, background, routeReturns,
           routeThrows, executionEnds, Answers
  <2>7. QED
    BY <1>1, <2>3, <2>6 DEF Next
<1>2. ASSUME Inductive, [Next]_vars
      PROVE  [\A t \in Task :
                  tasks[t].answer # "none" => tasks'[t].answer = tasks[t].answer]_vars
  BY <1>1, <1>2
<1>3. QED
  BY <1>2, InductiveHolds, PTL DEF Spec, AnswersAreFinal
=============================================================================
