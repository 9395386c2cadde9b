---------------------------- MODULE ControlPlane ----------------------------
(***************************************************************************)
(* The control plane over AI-produced mutations: an artifact is approved,  *)
(* a workflow records that it was applied over a checkpoint, a verdict     *)
(* follows, and an operator may recover.  The routes of the server over    *)
(* the approval store, the workflow engine, the verification engine and    *)
(* the recovery engine, all of them in memory: their promises are resolved *)
(* when they are awaited, so a request that arrives as an event of its own *)
(* runs to its reply before the next one begins.  A request is one action, *)
(* with a separate action for every point at which it throws after it has  *)
(* changed something.  Requests that change nothing are left out; bodies   *)
(* have the types that the SDK gives them.                                 *)
(***************************************************************************)
EXTENDS Naturals, Sequences, FiniteSets

CONSTANTS
    Artifact, Workflow, Approval, Checkpoint,  \* identifiers
    Key,            \* idempotency keys of POST /v1/control/workflows
    None,           \* absent: no artifact, approval, checkpoint, key or record
    MaxEvidence     \* bound: a replayed creation needs a log shorter than this

VARIABLES
    registered,     \* the artifact store
    approvals,      \* the approval store: what each approval is bound to
    denied,         \* the artifacts with a denial record
    checkpoints,    \* the checkpoint repository: was the tree dirty?
    workflows,      \* the workflow repository, byId
    byIdem,         \* the workflow repository, the workflow created for a key
    evidence,       \* the evidence log: the toState of each event of a workflow
    handle,         \* the state that a client's WorkflowHandle shows
    dirtyAtApply    \* history: the tree as it was when the mutation was made

storeVars == <<registered, approvals, denied>>
vars == <<registered, approvals, denied, checkpoints, workflows, byIdem, evidence, handle,
          dirtyAtApply>>

Transitions ==
    [DRAFT               |-> {"AWAITING_APPROVAL", "CANCELLED"},
     AWAITING_APPROVAL   |-> {"APPROVED", "CANCELLED"},
     APPROVED            |-> {"APPLYING", "CANCELLED"},
     APPLYING            |-> {"APPLIED", "RECOVERY_REQUIRED", "FAILED", "CANCELLED"},
     APPLIED             |-> {"VERIFYING", "CANCELLED"},
     VERIFYING           |-> {"VERIFIED", "VERIFICATION_FAILED"},
     VERIFICATION_FAILED |-> {"RECOVERY_REQUIRED", "FAILED"},
     RECOVERY_REQUIRED   |-> {"RECOVERING", "FAILED", "CANCELLED"},
     RECOVERING          |-> {"RECOVERED", "FAILED"},
     VERIFIED |-> {}, RECOVERED |-> {}, FAILED |-> {}, CANCELLED |-> {}]

States == DOMAIN Transitions

FinalStates == {state \in States : Transitions[state] = {}}

MutationOutcome == {"NOT_STARTED", "NO_MUTATION", "APPLIED", "PARTIAL", "INDETERMINATE"}

RecoveryStrategy == {"REVERSE_PATCH", "RESTORE_CHECKPOINT", "COMPENSATING_CHANGE", "MANUAL"}

\* SKIPPED and ERROR are treated as FAILED is.
VerificationStatus == {"PASSED", "FAILED", "INCONCLUSIVE"}

WorkflowRecord ==
    [state : States, artifact : Artifact, approval : Approval \cup {None},
     checkpoint : Checkpoint \cup {None}, outcome : MutationOutcome \cup {None},
     verification : [status : VerificationStatus, timedOut : BOOLEAN] \cup {None},
     recovery : RecoveryStrategy \cup {None}]

\* undefined is no identifier, no value of an enumeration and no record.
ASSUME NoneAssumption ==
    /\ None \notin Artifact \cup Workflow \cup Approval \cup Checkpoint \cup Key
    /\ None \notin States \cup MutationOutcome \cup RecoveryStrategy
    /\ None \notin BOOLEAN
    /\ None \notin [artifact : Artifact, expired : BOOLEAN]
    /\ None \notin WorkflowRecord

TypeOK ==
    /\ registered \subseteq Artifact
    /\ approvals \in [Approval -> [artifact : Artifact, expired : BOOLEAN] \cup {None}]
    /\ denied \subseteq Artifact
    /\ checkpoints \in [Checkpoint -> BOOLEAN \cup {None}]
    /\ workflows \in [Workflow -> WorkflowRecord \cup {None}]
    /\ byIdem \in [Key -> Workflow \cup {None}]
    /\ evidence \in [Workflow -> Seq(States)]
    /\ handle \in [Workflow -> States \cup {None}]
    /\ dirtyAtApply \in [Workflow -> BOOLEAN \cup {None}]

Init ==
    /\ registered = {}
    /\ approvals = [p \in Approval |-> None]
    /\ denied = {}
    /\ checkpoints = [cp \in Checkpoint |-> None]
    /\ workflows = [w \in Workflow |-> None]
    /\ byIdem = [k \in Key |-> None]
    /\ evidence = [w \in Workflow |-> <<>>]
    /\ handle = [w \in Workflow |-> None]
    /\ dirtyAtApply = [w \in Workflow |-> None]

-----------------------------------------------------------------------------
(* The approval store.                                                      *)

registerArtifact(a) ==
    /\ a \notin registered
    /\ registered' = registered \cup {a}
    /\ UNCHANGED <<approvals, denied, checkpoints, workflows, byIdem, evidence, handle,
                   dirtyAtApply>>

\* A request whose hash, scope or action type differs from the artifact's is
\* refused, like one for an unknown or a denied artifact.
approveArtifact(p, a) ==
    /\ approvals[p] = None
    /\ a \in registered
    /\ a \notin denied
    /\ approvals' = [approvals EXCEPT ![p] = [artifact |-> a, expired |-> FALSE]]
    /\ UNCHANGED <<registered, denied, checkpoints, workflows, byIdem, evidence, handle,
                   dirtyAtApply>>

denyArtifact(a) ==
    /\ a \in registered
    /\ denied' = denied \cup {a}
    /\ UNCHANGED <<registered, approvals, checkpoints, workflows, byIdem, evidence, handle,
                   dirtyAtApply>>

\* The clock passes the approval's expiresAt.
expire(p) ==
    /\ approvals[p] # None
    /\ approvals' = [approvals EXCEPT ![p].expired = TRUE]
    /\ UNCHANGED <<registered, denied, checkpoints, workflows, byIdem, evidence, handle,
                   dirtyAtApply>>

\* Mutant: whose artifact the approval was for is not looked at.
validApprovalOfAny(p, a) == approvals[p] # None /\ ~ approvals[p].expired

\* _validateApprovalOrThrow(): issued, not expired, and for this artifact.
validApproval(p, a) ==
    /\ approvals[p] # None
    /\ ~ approvals[p].expired
    /\ approvals[p].artifact = a

-----------------------------------------------------------------------------
(* Creating a workflow.                                                     *)

draft(a) == [state |-> "DRAFT", artifact |-> a, approval |-> None, checkpoint |-> None,
             outcome |-> None, verification |-> None, recovery |-> None]

exists(w) == workflows[w] # None

inState(w, states) == exists(w) /\ workflows[w].state \in states

\* An event of the evidence log, and the reply that carries the new state.
log(w, state) == evidence' = [evidence EXCEPT ![w] = Append(@, state)]
reply(w, state) == handle' = [handle EXCEPT ![w] = state]

\* The artifact need not be registered.
create(w, a, key) ==
    /\ ~ exists(w)
    /\ key # None => byIdem[key] = None
    /\ workflows' = [workflows EXCEPT ![w] = draft(a)]
    /\ byIdem' = IF key = None THEN byIdem ELSE [byIdem EXCEPT ![key] = w]
    /\ log(w, "DRAFT")
    /\ reply(w, "DRAFT")
    /\ UNCHANGED <<storeVars, checkpoints, dirtyAtApply>>

\* The key's index holds the record that was registered at creation, which no
\* later save replaces; the route logs another creation.
createAgain(key) ==
    /\ byIdem[key] # None
    /\ LET w == byIdem[key]
       IN  /\ Len(evidence[w]) < MaxEvidence
           /\ log(w, "DRAFT")
           /\ reply(w, "DRAFT")
    /\ UNCHANGED <<storeVars, checkpoints, workflows, byIdem, dirtyAtApply>>

-----------------------------------------------------------------------------
(* POST /v1/control/workflows/:id/apply.                                    *)

Pending == {"DRAFT", "AWAITING_APPROVAL"}

\* Mutant: a mutation that needs recovery may be tried again.
approvedOrRetried(w, p) ==
    \/ inState(w, {"APPROVED", "RECOVERY_REQUIRED"})
    \/ inState(w, Pending) /\ validApproval(p, workflows[w].artifact)

\* Approved by an earlier request, or by this one.
approvedNow(w, p) ==
    \/ inState(w, {"APPROVED"})
    \/ inState(w, Pending) /\ validApproval(p, workflows[w].artifact)

withApproval(w, p) ==
    IF workflows[w].state = "APPROVED" THEN workflows[w]
    ELSE [workflows[w] EXCEPT !.state = "APPROVED", !.approval = p]

\* approve() throws: the workflow is left waiting for an approval.
applyUnapproved(w, p) ==
    /\ inState(w, Pending)
    /\ ~ validApproval(p, workflows[w].artifact)
    /\ workflows' = [workflows EXCEPT ![w].state = "AWAITING_APPROVAL"]
    /\ UNCHANGED <<storeVars, checkpoints, byIdem, evidence, handle, dirtyAtApply>>

\* beginApply() throws for want of a checkpoint identifier.
applyWithoutCheckpoint(w, p) ==
    /\ approvedNow(w, p)
    /\ workflows' = [workflows EXCEPT ![w] = withApproval(w, p)]
    /\ UNCHANGED <<storeVars, checkpoints, byIdem, evidence, handle, dirtyAtApply>>

\* beginApply() throws because of the state, after the checkpoint was saved.
applyTooLate(w, cp, dirty) ==
    /\ exists(w)
    /\ ~ inState(w, Pending \cup {"APPROVED"})
    /\ checkpoints' = [checkpoints EXCEPT ![cp] = dirty]
    /\ UNCHANGED <<storeVars, workflows, byIdem, evidence, handle, dirtyAtApply>>

apply(w, p, cp, dirty, outcome) ==
    LET next == IF outcome \in {"APPLIED", "NO_MUTATION"} THEN "APPLIED"
                ELSE "RECOVERY_REQUIRED"
    IN  /\ approvedNow(w, p)
        /\ checkpoints' = [checkpoints EXCEPT ![cp] = dirty]
        /\ workflows' = [workflows EXCEPT ![w] =
               [withApproval(w, p) EXCEPT !.state = next, !.checkpoint = cp,
                                          !.outcome = outcome]]
        /\ log(w, next)
        /\ reply(w, next)
        /\ dirtyAtApply' = [dirtyAtApply EXCEPT ![w] = dirty]
        /\ UNCHANGED <<storeVars, byIdem>>

-----------------------------------------------------------------------------
(* POST .../verify, .../recover, .../cancel and GET.                        *)

\* submit() throws on the request after the route has changed the state.
verifyMalformed(w) ==
    /\ inState(w, {"APPLIED"})
    /\ workflows' = [workflows EXCEPT ![w].state = "VERIFYING"]
    /\ UNCHANGED <<storeVars, checkpoints, byIdem, evidence, handle, dirtyAtApply>>

\* _normaliseStatus(): what ran out of time or has no known status decided nothing.
normaliseStatus(raw, timedOut) ==
    IF timedOut \/ raw \notin VerificationStatus THEN "INCONCLUSIVE" ELSE raw

verify(w, raw, timedOut) ==
    LET status == normaliseStatus(raw, timedOut)
        next == IF status = "PASSED" THEN "VERIFIED" ELSE "VERIFICATION_FAILED"
    IN  /\ inState(w, {"APPLIED", "VERIFYING"})
        /\ workflows' = [workflows EXCEPT
               ![w].state = next, ![w].verification = [status |-> status, timedOut |-> timedOut]]
        /\ log(w, next)
        /\ reply(w, next)
        /\ UNCHANGED <<storeVars, checkpoints, byIdem, dirtyAtApply>>

\* The checkpoint a directive goes by: the one it names, or the workflow's.
directiveCheckpoint(w, cp) == IF cp # None THEN cp ELSE workflows[w].checkpoint

\* Mutant: only the checkpoint is looked at.
checkCheckpointOnly(strategy, outcome, dirty) ==
    strategy = "RESTORE_CHECKPOINT" => ~ dirty

checkSafety(strategy, outcome, dirty) ==
    \/ strategy = "MANUAL"
    \/ /\ outcome \in {"APPLIED", "PARTIAL"}
       /\ strategy = "RESTORE_CHECKPOINT" => ~ dirty

\* issueDirective() accepts: a named checkpoint exists, RESTORE_CHECKPOINT
\* names one, and the safety matrix admits the strategy.
admissible(w, strategy, cp) ==
    /\ cp # None => checkpoints[cp] # None
    /\ strategy = "RESTORE_CHECKPOINT" => cp # None
    /\ checkSafety(strategy, workflows[w].outcome, checkpoints[directiveCheckpoint(w, cp)])

\* issueDirective() throws, on the request or on the strategy, after the route
\* has changed the state.
recoverRefused(w) ==
    /\ inState(w, {"VERIFICATION_FAILED"})
    /\ workflows' = [workflows EXCEPT ![w].state = "RECOVERY_REQUIRED"]
    /\ UNCHANGED <<storeVars, checkpoints, byIdem, evidence, handle, dirtyAtApply>>

\* Mutant: the event does not tell a recovery that failed.
recoverAndLogSuccess(w, strategy, cp, succeeded) ==
    LET next == IF succeeded THEN "RECOVERED" ELSE "FAILED"
    IN  /\ inState(w, {"VERIFICATION_FAILED", "RECOVERY_REQUIRED"})
        /\ admissible(w, strategy, cp)
        /\ workflows' = [workflows EXCEPT ![w].state = next, ![w].recovery = strategy]
        /\ log(w, "RECOVERED")
        /\ reply(w, next)
        /\ UNCHANGED <<storeVars, checkpoints, byIdem, dirtyAtApply>>

recover(w, strategy, cp, succeeded) ==
    LET next == IF succeeded THEN "RECOVERED" ELSE "FAILED"
    IN  /\ inState(w, {"VERIFICATION_FAILED", "RECOVERY_REQUIRED"})
        /\ admissible(w, strategy, cp)
        /\ workflows' = [workflows EXCEPT ![w].state = next, ![w].recovery = strategy]
        /\ log(w, next)
        /\ reply(w, next)
        /\ UNCHANGED <<storeVars, checkpoints, byIdem, dirtyAtApply>>

\* Mutant: the state is replaced without asking for the transition.
cancelUnchecked(w) ==
    /\ exists(w)
    /\ workflows' = [workflows EXCEPT ![w].state = "CANCELLED"]
    /\ log(w, "CANCELLED")
    /\ reply(w, "CANCELLED")
    /\ UNCHANGED <<storeVars, checkpoints, byIdem, dirtyAtApply>>

cancel(w) ==
    /\ exists(w)
    /\ "CANCELLED" \in Transitions[workflows[w].state]
    /\ workflows' = [workflows EXCEPT ![w].state = "CANCELLED"]
    /\ log(w, "CANCELLED")
    /\ reply(w, "CANCELLED")
    /\ UNCHANGED <<storeVars, checkpoints, byIdem, dirtyAtApply>>

reload(w) ==
    /\ exists(w)
    /\ reply(w, workflows[w].state)
    /\ UNCHANGED <<storeVars, checkpoints, workflows, byIdem, evidence, dirtyAtApply>>

-----------------------------------------------------------------------------

approvalStep ==
    \/ \E a \in Artifact : registerArtifact(a) \/ denyArtifact(a)
    \/ \E p \in Approval : expire(p) \/ \E a \in Artifact : approveArtifact(p, a)

applyStep(w) ==
    \/ \E p \in Approval : applyUnapproved(w, p) \/ applyWithoutCheckpoint(w, p)
    \/ \E cp \in Checkpoint, dirty \in BOOLEAN :
           \/ applyTooLate(w, cp, dirty)
           \/ \E p \in Approval, outcome \in MutationOutcome : apply(w, p, cp, dirty, outcome)

laterStep(w) ==
    \/ verifyMalformed(w)
    \/ \E raw \in VerificationStatus \cup {"OTHER"}, timedOut \in BOOLEAN :
           verify(w, raw, timedOut)
    \/ recoverRefused(w)
    \/ \E strategy \in RecoveryStrategy, cp \in Checkpoint \cup {None}, succeeded \in BOOLEAN :
           recover(w, strategy, cp, succeeded)
    \/ cancel(w)
    \/ reload(w)

Next ==
    \/ approvalStep
    \/ \E w \in Workflow, a \in Artifact, key \in Key \cup {None} : create(w, a, key)
    \/ \E key \in Key : createAgain(key)
    \/ \E w \in Workflow : applyStep(w) \/ laterStep(w)

Spec == Init /\ [][Next]_vars

-----------------------------------------------------------------------------

\* A workflow that has a mutation to its name was approved for the artifact it
\* was created for, by an approval that was really issued, over a checkpoint
\* that is still in the repository; and it is VERIFIED only when the mutation
\* went through and its verification passed in time.
MutationsAreApproved ==
    \A w \in Workflow : exists(w) =>
        LET wf == workflows[w]
        IN  /\ wf.outcome # None \/ wf.state = "APPROVED" =>
                   /\ wf.approval # None
                   /\ approvals[wf.approval] # None
                   /\ approvals[wf.approval].artifact = wf.artifact
            /\ wf.outcome # None => wf.checkpoint # None /\ checkpoints[wf.checkpoint] # None
            /\ wf.state \notin Pending \cup {"APPROVED", "CANCELLED"} => wf.outcome # None
            /\ wf.state = "VERIFIED" =>
                   /\ wf.verification = [status |-> "PASSED", timedOut |-> FALSE]
                   /\ wf.outcome \in {"APPLIED", "NO_MUTATION"}

\* Nothing is reversed, restored or compensated that may not have been done: a
\* mutation of unknown extent is recovered by hand only, and so is one that
\* changed nothing; no passed verification is ever recovered from.
AutomaticRecoveryHasACause ==
    \A w \in Workflow : exists(w) /\ workflows[w].recovery # None =>
        /\ workflows[w].state \in {"RECOVERED", "FAILED"}
        /\ workflows[w].verification # None => workflows[w].verification.status # "PASSED"
        /\ workflows[w].recovery # "MANUAL" => workflows[w].outcome \in {"APPLIED", "PARTIAL"}

\* The evidence log names the final state of a workflow, once, and no final
\* state that the workflow did not end in; it begins with the creation.
EvidenceTellsTheOutcome ==
    \A w \in Workflow : exists(w) =>
        /\ evidence[w][1] = "DRAFT"
        /\ \A state \in FinalStates :
               Cardinality({i \in DOMAIN evidence[w] : evidence[w][i] = state}) =
                   IF workflows[w].state = state THEN 1 ELSE 0

\* A workflow that has ended keeps its whole record, whatever is requested of
\* it, even though the engine's attach operations do not look at the state.
FinalWorkflowsAreFrozen ==
    [][\A w \in Workflow : inState(w, FinalStates) => workflows'[w] = workflows[w]]_vars

\* However often an apply is requested, and whatever verdict or recovery comes
\* after, a workflow stands for one mutation: its outcome, checkpoint and
\* approval are never those of a later request.
MutatesOnce ==
    [][\A w \in Workflow : exists(w) /\ workflows[w].outcome # None =>
           /\ workflows'[w].outcome = workflows[w].outcome
           /\ workflows'[w].checkpoint = workflows[w].checkpoint
           /\ workflows'[w].approval = workflows[w].approval]_vars

-----------------------------------------------------------------------------
(* What the stage closure and the tests say and the code does not do.       *)

\* "RESTORE_CHECKPOINT is only admissible when the pre-mutation checkpoint has
\* no uncommitted changes": no restore over a tree that was dirty at the apply.
RestoreOnlyOverCleanTree ==
    \A w \in Workflow : exists(w) /\ workflows[w].recovery = "RESTORE_CHECKPOINT" =>
        dirtyAtApply[w] = FALSE

\* "workflow.cancel() - only valid from DRAFT": a mutation is not abandoned.
CancelledMeansUntouched ==
    \A w \in Workflow : inState(w, {"CANCELLED"}) => workflows[w].outcome = None

\* "same idempotency key returns existing record": whatever request a client's
\* handle is updated by, it is told the state that the workflow is then in.
RepliesTellTheState ==
    [][\A w \in Workflow : handle'[w] # handle[w] => handle'[w] = workflows'[w].state]_vars
=============================================================================
