---------------------------- MODULE PlanExecutor ----------------------------
(***************************************************************************)
(* The executor of workflow plans: one step after another, with retries, a *)
(* journal whose entries are also events for subscribers, a checkpoint     *)
(* after every step and the result at the end, both written to files that  *)
(* outlive the process.  The process may stop between any two steps and in *)
(* the middle of a write.                                                  *)
(***************************************************************************)
EXTENDS Naturals, Sequences, FiniteSets, SequencesExt

CONSTANTS
    Steps,          \* the number of steps of the plan, in order of position
    MaxRetries,     \* policy.maxRetries
    Reader,         \* the iterators of handle.events()
    Absent, Torn    \* no file; a file that a crash left half written

ASSUME PlanAssumption == Steps \in Nat /\ MaxRetries \in Nat

VARIABLES
    run,            \* the execution: locals of _run() and of the step executor
    journal,        \* its journal
    bus,            \* its event bus: closed or not, and the queues of the readers
    received,       \* what each reader has received
    checkpoint,     \* the checkpoint file
    result,         \* the result file
    resumption      \* what became of the last resume()

vars == <<run, journal, bus, received, checkpoint, result, resumption>>

Position == 1 .. Steps

StepEvents == {"STEP_STARTED", "PROVIDER_INVOKED", "STEP_COMPLETED", "STEP_FAILED",
               "CHECKPOINT_SAVED"}

Entry == [type : StepEvents, step : Position]
             \cup [type : {"EXECUTION_STARTED", "EXECUTION_COMPLETED", "EXECUTION_FAILED"},
                   step : {0}]

\* The item null that close() queues.
END == [type |-> "END", step |-> 0]

\* Before which await the execution stands.
Pcs == {"none", "loop", "attempt", "invoking", "saving", "writing", "writingResult",
        "done", "crashed"}

NoRun == [pc |-> "none", continueOnFailure |-> FALSE, index |-> 1, attempts |-> 0,
          completed |-> {}, failedSteps |-> {}, failed |-> FALSE]

Checkpoint == [completedSteps : SUBSET Position, currentStep : Nat, journalOffset : Nat]

Result == [success : BOOLEAN, completed : SUBSET Position, failed : SUBSET Position,
           journal : Seq(Entry)]

\* A file that is not there, or not readable, is none that was written.
ASSUME FileAssumption == {Absent, Torn} \cap (Checkpoint \cup Result) = {}

TypeOK ==
    /\ run \in [pc : Pcs, continueOnFailure : BOOLEAN, index : 1 .. Steps + 1,
                attempts : 0 .. MaxRetries + 1, completed : SUBSET Position,
                failedSteps : SUBSET Position, failed : BOOLEAN]
    /\ journal \in Seq(Entry)
    /\ bus \in [closed : BOOLEAN, queue : [Reader -> Seq(Entry \cup {END})],
                subscribers : SUBSET Reader]
    /\ received \in [Reader -> Seq(Entry \cup {END})]
    /\ checkpoint \in {Absent, Torn} \/ checkpoint \in Checkpoint
    /\ result \in {Absent, Torn} \/ result \in Result
    /\ resumption \in {"none", "no result", "no steps"}

Init ==
    /\ run = NoRun
    /\ journal = <<>>
    /\ bus = [closed |-> FALSE, queue |-> [r \in Reader |-> <<>>], subscribers |-> {}]
    /\ received = [r \in Reader |-> <<>>]
    /\ checkpoint = Absent
    /\ result = Absent
    /\ resumption = "none"

-----------------------------------------------------------------------------
(* Journal and event bus.                                                   *)

entry(type) == [type |-> type, step |-> run.index]

final(type) == [type |-> type, step |-> 0]

pushed(item) ==
    [r \in Reader |-> IF r \in bus.subscribers THEN Append(bus.queue[r], item)
                      ELSE bus.queue[r]]

\* journal.append(), bridged to emit().
append(e) ==
    /\ journal' = Append(journal, e)
    /\ bus' = IF bus.closed THEN bus ELSE [bus EXCEPT !.queue = pushed(e)]

\* Mutant: the readers are forgotten without a word.
closeSilently == bus' = [bus EXCEPT !.closed = TRUE, !.subscribers = {}]

close == bus' = [closed |-> TRUE, queue |-> pushed(END), subscribers |-> {}]

\* Mutant: a reader that comes late gets what comes later.
subscribeLive(r) ==
    /\ run.pc \notin {"none", "crashed"}
    /\ received[r] = <<>> /\ bus.queue[r] = <<>> /\ r \notin bus.subscribers
    /\ bus' = [bus EXCEPT !.queue[r] = IF bus.closed THEN <<END>> ELSE <<>>,
                          !.subscribers = IF bus.closed THEN @ ELSE @ \cup {r}]
    /\ UNCHANGED <<run, journal, received, checkpoint, result, resumption>>

\* handle.events(): the history first, then what is emitted.
subscribe(r) ==
    /\ run.pc \notin {"none", "crashed"}
    /\ received[r] = <<>> /\ bus.queue[r] = <<>> /\ r \notin bus.subscribers
    /\ bus' = [bus EXCEPT !.queue[r] = journal \o (IF bus.closed THEN <<END>> ELSE <<>>),
                          !.subscribers = IF bus.closed THEN @ ELSE @ \cup {r}]
    /\ UNCHANGED <<run, journal, received, checkpoint, result, resumption>>

\* next().
receive(r) ==
    /\ run.pc # "crashed"
    /\ bus.queue[r] # <<>>
    /\ received' = [received EXCEPT ![r] = Append(@, Head(bus.queue[r]))]
    /\ bus' = [bus EXCEPT !.queue[r] = Tail(@)]
    /\ UNCHANGED <<run, journal, checkpoint, result, resumption>>

-----------------------------------------------------------------------------
(* The execution.                                                           *)

execute ==
    /\ run.pc = "none"
    /\ \E continue \in BOOLEAN :
           run' = [run EXCEPT !.pc = "loop", !.continueOnFailure = continue]
    /\ append(final("EXECUTION_STARTED"))
    /\ UNCHANGED <<received, checkpoint, result, resumption>>

startStep ==
    /\ run.pc = "loop" /\ ~ run.failed /\ run.index <= Steps
    /\ run' = [run EXCEPT !.pc = "attempt", !.attempts = 1]
    /\ append(entry("STEP_STARTED"))
    /\ UNCHANGED <<received, checkpoint, result, resumption>>

invoke ==
    /\ run.pc = "attempt"
    /\ run' = [run EXCEPT !.pc = "invoking"]
    /\ append(entry("PROVIDER_INVOKED"))
    /\ UNCHANGED <<received, checkpoint, result, resumption>>

providerAnswers ==
    /\ run.pc = "invoking"
    /\ run' = [run EXCEPT !.pc = "saving", !.completed = @ \cup {run.index}]
    /\ append(entry("STEP_COMPLETED"))
    /\ UNCHANGED <<received, checkpoint, result, resumption>>

retriesLeft == run.attempts <= MaxRetries

\* resolve() throws before the entry, or the provider fails after it.
attemptFails ==
    /\ run.pc \in {"attempt", "invoking"}
    /\ retriesLeft
    /\ run' = [run EXCEPT !.pc = "attempt", !.attempts = @ + 1]
    /\ UNCHANGED <<journal, bus, received, checkpoint, result, resumption>>

\* Mutant: the loop goes on whatever the policy says.
stepFailsOpen ==
    /\ run.pc \in {"attempt", "invoking"}
    /\ ~ retriesLeft
    /\ run' = [run EXCEPT !.pc = "saving", !.failedSteps = @ \cup {run.index}]
    /\ append(entry("STEP_FAILED"))
    /\ UNCHANGED <<received, checkpoint, result, resumption>>

stepFails ==
    /\ run.pc \in {"attempt", "invoking"}
    /\ ~ retriesLeft
    /\ run' = [run EXCEPT !.pc = IF run.continueOnFailure THEN "saving" ELSE "loop",
                          !.failed = ~ run.continueOnFailure,
                          !.failedSteps = @ \cup {run.index}]
    /\ append(entry("STEP_FAILED"))
    /\ UNCHANGED <<received, checkpoint, result, resumption>>

\* Mutant: the checkpoint is one step behind.
staleCheckpoint ==
    [completedSteps |-> run.completed \ {run.index}, currentStep |-> run.index + 1,
     journalOffset |-> Len(journal)]

newCheckpoint ==
    [completedSteps |-> run.completed, currentStep |-> run.index + 1,
     journalOffset |-> Len(journal)]

\* writeFile() empties the file before it writes it.
saveCheckpoint ==
    /\ run.pc = "saving"
    /\ run' = [run EXCEPT !.pc = "writing"]
    /\ checkpoint' = Torn
    /\ UNCHANGED <<journal, bus, received, result, resumption>>

checkpointSaved ==
    /\ run.pc = "writing"
    /\ checkpoint' = newCheckpoint
    /\ run' = [run EXCEPT !.pc = "loop", !.index = @ + 1]
    /\ append(entry("CHECKPOINT_SAVED"))
    /\ UNCHANGED <<received, result, resumption>>

\* The outcome is in the journal, and with the readers, before the result is in
\* its file.
finish ==
    /\ run.pc = "loop"
    /\ run.failed \/ run.index > Steps
    /\ run' = [run EXCEPT !.pc = "writingResult"]
    /\ append(final(IF run.failed THEN "EXECUTION_FAILED" ELSE "EXECUTION_COMPLETED"))
    /\ result' = Torn
    /\ UNCHANGED <<received, checkpoint, resumption>>

newResult ==
    [success |-> ~ run.failed, completed |-> run.completed, failed |-> run.failedSteps,
     journal |-> journal]

\* saveResult() is done: the bus is closed and wait() answers.
resultSaved ==
    /\ run.pc = "writingResult"
    /\ result' = newResult
    /\ run' = [run EXCEPT !.pc = "done"]
    /\ close
    /\ UNCHANGED <<journal, received, checkpoint, resumption>>

\* The process stops: it is killed, or a store that throws leaves a rejection
\* that nobody handles, as _run() does not await run().
crash ==
    /\ run.pc \notin {"none", "crashed"}
    /\ run' = [run EXCEPT !.pc = "crashed"]
    /\ UNCHANGED <<journal, bus, received, checkpoint, result, resumption>>

\* resume(): without a result it throws; with one it takes the result for the
\* plan, and schedule() throws, as a result has no steps.
resume ==
    /\ run.pc \in {"done", "crashed"}
    /\ checkpoint \notin {Absent, Torn}
    /\ resumption' = IF result \in {Absent, Torn} THEN "no result" ELSE "no steps"
    /\ UNCHANGED <<run, journal, bus, received, checkpoint, result>>

-----------------------------------------------------------------------------

\* The executor's own steps and the answers it waits for.
proceed ==
    \/ startStep \/ invoke \/ providerAnswers \/ attemptFails \/ stepFails
    \/ saveCheckpoint \/ checkpointSaved \/ finish \/ resultSaved

Next ==
    \/ execute \/ proceed \/ crash \/ resume
    \/ \E r \in Reader : subscribe(r) \/ receive(r)

Spec == Init /\ [][Next]_vars

\* Providers and files answer, readers read; nothing here bounds the time of a
\* provider.
FairSpec == Spec /\ WF_vars(proceed) /\ \A r \in Reader : WF_vars(receive(r))

-----------------------------------------------------------------------------
(* Properties.                                                              *)

stepsWith(type, entries) == {e.step : e \in {e \in ToSet(entries) : e.type = type}}

\* Whatever the moment at which the process stops, a checkpoint that can be read
\* claims no step that did not complete, and is at most one completed step
\* behind: a step is checkpointed before the next is started.
CheckpointTellsTheWork ==
    LET completed == stepsWith("STEP_COMPLETED", journal)
        claimed == IF checkpoint = Absent THEN {} ELSE checkpoint.completedSteps
    IN  checkpoint # Torn =>
            /\ claimed \subseteq completed
            /\ Cardinality(completed \ claimed) <= 1
            /\ checkpoint # Absent =>
                   \A i \in Position : i < checkpoint.currentStep =>
                       i \in claimed \cup stepsWith("STEP_FAILED", journal)

\* The result that is saved is the story the journal tells: every step that was
\* started has completed or failed, and without continueOnFailure nothing was
\* started after a failure and SUCCESS means every step.
ResultTellsTheJournal ==
    result \notin {Absent, Torn} =>
        LET started == stepsWith("STEP_STARTED", result.journal)
        IN  /\ result.completed = stepsWith("STEP_COMPLETED", result.journal)
            /\ result.failed = stepsWith("STEP_FAILED", result.journal)
            /\ result.completed \cap result.failed = {}
            /\ started = result.completed \cup result.failed
            /\ Last(result.journal).type =
                   IF result.success THEN "EXECUTION_COMPLETED" ELSE "EXECUTION_FAILED"
            /\ ~ run.continueOnFailure =>
                   /\ result.success <=> result.completed = Position
                   /\ \A i \in result.failed : \A j \in started : j <= i
            /\ run.continueOnFailure => result.success /\ started = Position

\* A reader, however late it came, has the journal from its beginning without a
\* gap or a repetition, and an iterator that has ended has all of it and finds
\* the result saved.
ReadersSeeTheJournal ==
    \A r \in Reader :
        LET ended == received[r] # <<>> /\ Last(received[r]) = END
        IN  IF ended THEN received[r] = Append(journal, END) /\ result \notin {Absent, Torn}
            ELSE IsPrefix(received[r], journal)

\* An iterator ends, unless the process does.
ReadersEnd ==
    \A r \in Reader :
        r \in bus.subscribers ~>
            (run.pc = "crashed" \/ (received[r] # <<>> /\ Last(received[r]) = END))

\* "resume rebuilds from checkpoint" (execution-engine.ts:40), as the recovery
\* scenario expects of a run that has completed: a checkpoint that was saved
\* can be resumed.
CheckpointsCanBeResumed == resumption = "none"
=============================================================================
