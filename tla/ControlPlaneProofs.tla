------------------------- MODULE ControlPlaneProofs -------------------------
(***************************************************************************)
(* Proofs about ControlPlane, for any artifacts, workflows, approvals,     *)
(* checkpoints and keys.                                                   *)
(***************************************************************************)
EXTENDS ControlPlane, FiniteSetTheorems, SequenceTheorems, TLAPS

-----------------------------------------------------------------------------
(* The inductive invariant.  What a record says is judged against the       *)
(* approvals ap and the checkpoints cps, which are only ever added to.      *)

Approved(wf, ap) ==
    /\ wf.approval # None
    /\ ap[wf.approval] # None
    /\ ap[wf.approval].artifact = wf.artifact

Covered(wf, cps) == wf.checkpoint # None /\ cps[wf.checkpoint] # None

SoundMutation(wf, ap, cps) ==
    /\ wf.outcome # None \/ wf.state = "APPROVED" => Approved(wf, ap)
    /\ wf.outcome # None => Covered(wf, cps)
    /\ wf.state \in Pending \cup {"APPROVED"} => wf.outcome = None
    /\ wf.state \notin Pending \cup {"APPROVED", "CANCELLED"} => wf.outcome # None
    /\ wf.state \in {"APPLIED", "VERIFYING", "VERIFIED"} =>
           wf.outcome \in {"APPLIED", "NO_MUTATION"}

SoundVerdict(wf) ==
    /\ wf.verification # None /\ wf.verification.status = "PASSED" => wf.state = "VERIFIED"
    /\ wf.state = "VERIFIED" => wf.verification = [status |-> "PASSED", timedOut |-> FALSE]

SoundRecovery(wf) ==
    wf.recovery # None =>
        /\ wf.state \in {"RECOVERED", "FAILED"}
        /\ wf.recovery # "MANUAL" => wf.outcome \in {"APPLIED", "PARTIAL"}

Sound(wf, ap, cps) ==
    SoundMutation(wf, ap, cps) /\ SoundVerdict(wf) /\ SoundRecovery(wf)

Inductive ==
    /\ TypeOK
    /\ \A w \in Workflow : exists(w) => Sound(workflows[w], approvals, checkpoints)

-----------------------------------------------------------------------------
(* How the stores and the records may change.                               *)

StoresGrow ==
    /\ \A p \in Approval : approvals[p] # None =>
           approvals'[p] # None /\ approvals'[p].artifact = approvals[p].artifact
    /\ \A cp \in Checkpoint : checkpoints[cp] # None => checkpoints'[cp] # None

\* The types of everything but the workflows.
RestOK ==
    /\ registered \subseteq Artifact
    /\ approvals \in [Approval -> [artifact : Artifact, expired : BOOLEAN] \cup {None}]
    /\ denied \subseteq Artifact
    /\ checkpoints \in [Checkpoint -> BOOLEAN \cup {None}]
    /\ byIdem \in [Key -> Workflow \cup {None}]
    /\ evidence \in [Workflow -> Seq(States)]
    /\ handle \in [Workflow -> States \cup {None}]
    /\ dirtyAtApply \in [Workflow -> BOOLEAN \cup {None}]

\* The approval store and the checkpoint repository stay as they are.
LEMMA SameStoresGrow ==
    ASSUME UNCHANGED <<approvals, checkpoints>>
    PROVE  StoresGrow
BY DEF StoresGrow

\* A record stays sound while the stores grow.
LEMMA SoundKept ==
    ASSUME StoresGrow, NEW wf \in WorkflowRecord, Sound(wf, approvals, checkpoints)
    PROVE  Sound(wf, approvals', checkpoints')
<1>1. wf.approval \in Approval \cup {None} /\ wf.checkpoint \in Checkpoint \cup {None}
  BY DEF WorkflowRecord
<1>2. Approved(wf, approvals) => Approved(wf, approvals')
  BY <1>1 DEF Approved, StoresGrow
<1>3. Covered(wf, checkpoints) => Covered(wf, checkpoints')
  BY <1>1 DEF Covered, StoresGrow
<1>4. QED
  BY <1>2, <1>3 DEF Sound, SoundMutation

\* A step that writes no workflow.
LEMMA NothingEdited ==
    ASSUME Inductive, RestOK', StoresGrow, UNCHANGED workflows
    PROVE  Inductive'
<1>1. ASSUME NEW w \in Workflow, exists(w)'
      PROVE  Sound(workflows[w], approvals, checkpoints)'
  <2>1. workflows[w] \in WorkflowRecord /\ Sound(workflows[w], approvals, checkpoints)
    BY <1>1 DEF Inductive, TypeOK, exists
  <2>2. Sound(workflows[w], approvals', checkpoints')
    BY <2>1, SoundKept
  <2>3. QED
    BY <2>2
<1>2. TypeOK'
  BY DEF Inductive, TypeOK, RestOK
<1>3. QED
  BY <1>1, <1>2 DEF Inductive

\* A step that replaces one record by a sound one.
LEMMA OneEdited ==
    ASSUME Inductive, RestOK', StoresGrow, NEW w \in Workflow, NEW new \in WorkflowRecord,
           workflows' = [workflows EXCEPT ![w] = new],
           Sound(new, approvals', checkpoints')
    PROVE  Inductive'
<1>1. ASSUME NEW x \in Workflow, exists(x)'
      PROVE  Sound(workflows[x], approvals, checkpoints)'
  <2>1. CASE x = w
    <3>1. workflows'[x] = new
      BY <2>1 DEF Inductive, TypeOK
    <3>2. QED
      BY <3>1
  <2>2. CASE x # w
    <3>1. workflows'[x] = workflows[x]
      BY <2>2 DEF Inductive, TypeOK
    <3>2. workflows[x] \in WorkflowRecord /\ Sound(workflows[x], approvals, checkpoints)
      BY <1>1, <3>1 DEF Inductive, TypeOK, exists
    <3>3. Sound(workflows[x], approvals', checkpoints')
      BY <3>2, SoundKept
    <3>4. QED
      BY <3>1, <3>3
  <2>3. QED
    BY <2>1, <2>2
<1>2. workflows' \in [Workflow -> WorkflowRecord \cup {None}]
  BY DEF Inductive, TypeOK
<1>3. TypeOK'
  BY <1>2 DEF TypeOK, RestOK
<1>4. QED
  BY <1>1, <1>3 DEF Inductive

\* The record of a workflow that exists.
LEMMA RecordOf ==
    ASSUME Inductive, NEW w \in Workflow, exists(w)
    PROVE  /\ workflows[w] \in WorkflowRecord
           /\ Sound(workflows[w], approvals, checkpoints)
BY DEF Inductive, TypeOK, exists

\* An event and a reply carry a state.
LEMMA Told ==
    ASSUME RestOK, NEW w \in Workflow, NEW state \in States
    PROVE  /\ log(w, state) => evidence' \in [Workflow -> Seq(States)]
           /\ reply(w, state) => handle' \in [Workflow -> States \cup {None}]
<1>1. evidence[w] \in Seq(States)
  BY DEF RestOK
<1>2. Append(evidence[w], state) \in Seq(States)
  BY <1>1
<1>3. log(w, state) => evidence' \in [Workflow -> Seq(States)]
  BY <1>2 DEF RestOK, log
<1>4. reply(w, state) => handle' \in [Workflow -> States \cup {None}]
  BY DEF RestOK, reply
<1>5. QED
  BY <1>3, <1>4

LEMMA RestTyped == TypeOK => RestOK
BY DEF TypeOK, RestOK

LEMMA StatesAre ==
    States = {"DRAFT", "AWAITING_APPROVAL", "APPROVED", "APPLYING", "APPLIED", "VERIFYING",
              "VERIFICATION_FAILED", "RECOVERY_REQUIRED", "RECOVERING", "VERIFIED",
              "RECOVERED", "FAILED", "CANCELLED"}
BY DEF States, Transitions

LEMMA NotCancellable ==
    /\ "CANCELLED" \notin Transitions["VERIFIED"]
    /\ "CANCELLED" \notin Transitions["RECOVERED"]
    /\ "CANCELLED" \notin Transitions["FAILED"]
    /\ "CANCELLED" \notin Transitions["CANCELLED"]
BY DEF Transitions

LEMMA FinalStatesAre == FinalStates = {"VERIFIED", "RECOVERED", "FAILED", "CANCELLED"}
<1>1. \A state \in States : Transitions[state] = {} <=>
          state \in {"VERIFIED", "RECOVERED", "FAILED", "CANCELLED"}
  BY StatesAre DEF Transitions
<1>2. QED
  BY <1>1, StatesAre DEF FinalStates

LEMMA InitSound == Init => Inductive
<1> SUFFICES ASSUME Init PROVE Inductive
  OBVIOUS
<1>1. evidence \in [Workflow -> Seq(States)]
  BY DEF Init
<1>2. QED
  BY <1>1 DEF Init, Inductive, TypeOK, exists

-----------------------------------------------------------------------------
(* One lemma per group of requests.                                         *)

\* Approvals and denials write no workflow, and an approval that was issued
\* stays bound to its artifact.
LEMMA ApprovalsKeep ==
    ASSUME Inductive, approvalStep
    PROVE  Inductive'
<1> USE NoneAssumption
<1>0. RestOK
  BY RestTyped DEF Inductive
<1>1. ASSUME NEW a \in Artifact, registerArtifact(a) PROVE Inductive'
  BY <1>0, <1>1, SameStoresGrow, NothingEdited DEF registerArtifact, RestOK
<1>2. ASSUME NEW a \in Artifact, denyArtifact(a) PROVE Inductive'
  BY <1>0, <1>2, SameStoresGrow, NothingEdited DEF denyArtifact, RestOK
<1>3. ASSUME NEW p \in Approval, expire(p) PROVE Inductive'
  <2> DEFINE old == approvals[p]
             new == [old EXCEPT !.expired = TRUE]
  <2>1. old \in [artifact : Artifact, expired : BOOLEAN]
    BY <1>0, <1>3 DEF RestOK, expire
  <2>2. new \in [artifact : Artifact, expired : BOOLEAN] /\ new.artifact = old.artifact
    BY <2>1
  <2>3. approvals' = [approvals EXCEPT ![p] = new]
    BY <1>3 DEF expire
  <2>4. new # None
    BY <2>2
  <2> HIDE DEF new
  <2>5. StoresGrow
    BY <1>0, <1>3, <2>2, <2>3, <2>4 DEF StoresGrow, RestOK, expire
  <2>6. RestOK' /\ UNCHANGED workflows
    BY <1>0, <1>3, <2>2, <2>3 DEF RestOK, expire
  <2>7. QED
    BY <2>5, <2>6, NothingEdited
<1>4. ASSUME NEW p \in Approval, NEW a \in Artifact, approveArtifact(p, a) PROVE Inductive'
  <2> DEFINE new == [artifact |-> a, expired |-> FALSE]
  <2>1. new \in [artifact : Artifact, expired : BOOLEAN]
    OBVIOUS
  <2>2. approvals' = [approvals EXCEPT ![p] = new] /\ approvals[p] = None
    BY <1>4 DEF approveArtifact
  <2> HIDE DEF new
  <2>3. StoresGrow
    BY <1>0, <1>4, <2>2 DEF StoresGrow, RestOK, approveArtifact
  <2>4. RestOK' /\ UNCHANGED workflows
    BY <1>0, <1>4, <2>1, <2>2 DEF RestOK, approveArtifact
  <2>5. QED
    BY <2>3, <2>4, NothingEdited
<1>5. QED
  BY <1>1, <1>2, <1>3, <1>4 DEF approvalStep

\* A creation, the first or a repeated one.
LEMMA CreationKeeps ==
    ASSUME Inductive,
           \/ \E w \in Workflow, a \in Artifact, key \in Key \cup {None} : create(w, a, key)
           \/ \E key \in Key : createAgain(key)
    PROVE  Inductive'
<1>0. RestOK /\ "DRAFT" \in States
  BY RestTyped, StatesAre DEF Inductive
<1>1. ASSUME NEW w \in Workflow, NEW a \in Artifact, NEW key \in Key \cup {None},
             create(w, a, key)
      PROVE  Inductive'
  <2>1. draft(a) \in WorkflowRecord
    BY <1>0 DEF draft, WorkflowRecord
  <2>2. Sound(draft(a), approvals', checkpoints')
    BY DEF Sound, SoundMutation, SoundVerdict, SoundRecovery, draft, Pending
  <2>3. /\ workflows' = [workflows EXCEPT ![w] = draft(a)]
        /\ UNCHANGED <<storeVars, checkpoints, dirtyAtApply>>
        /\ log(w, "DRAFT") /\ reply(w, "DRAFT")
    BY <1>1 DEF create
  <2>4. byIdem' \in [Key -> Workflow \cup {None}]
    BY <1>0, <1>1 DEF create, RestOK
  <2>5. RestOK'
    BY <1>0, <2>3, <2>4, Told DEF RestOK, storeVars
  <2>6. StoresGrow
    BY <2>3, SameStoresGrow DEF storeVars
  <2>7. QED
    BY <2>1, <2>2, <2>3, <2>5, <2>6, OneEdited
<1>2. ASSUME NEW key \in Key, createAgain(key) PROVE Inductive'
  <2> DEFINE w == byIdem[key]
  <2>1. w \in Workflow
    BY <1>0, <1>2 DEF createAgain, RestOK
  <2>2. /\ UNCHANGED <<storeVars, checkpoints, workflows, byIdem, dirtyAtApply>>
        /\ log(w, "DRAFT") /\ reply(w, "DRAFT")
    BY <1>2 DEF createAgain
  <2> HIDE DEF w
  <2>3. RestOK'
    BY <1>0, <2>1, <2>2, Told DEF RestOK, storeVars
  <2>4. StoresGrow
    BY <2>2, SameStoresGrow DEF storeVars
  <2>5. QED
    BY <2>2, <2>3, <2>4, NothingEdited
<1>3. QED
  BY <1>1, <1>2

\* A pending or an approved workflow that may be applied: with its approval the
\* record is sound, and nothing is known of a mutation yet.
LEMMA WithApprovalSound ==
    ASSUME Inductive, NEW w \in Workflow, NEW p \in Approval, approvedNow(w, p)
    PROVE  /\ withApproval(w, p) \in WorkflowRecord
           /\ Sound(withApproval(w, p), approvals, checkpoints)
           /\ withApproval(w, p).state = "APPROVED"
           /\ workflows[w].state \in Pending \cup {"APPROVED"}
<1> DEFINE wf == workflows[w]
           new == [wf EXCEPT !.state = "APPROVED", !.approval = p]
<1>1. wf \in WorkflowRecord /\ Sound(wf, approvals, checkpoints)
  BY RecordOf DEF approvedNow, inState
<1>2. CASE wf.state = "APPROVED"
  BY <1>1, <1>2 DEF withApproval
<1>3. CASE wf.state # "APPROVED"
  <2>1. wf.state \in Pending /\ validApproval(p, wf.artifact)
    BY <1>3 DEF approvedNow, inState
  <2>2. /\ new \in WorkflowRecord /\ new.state = "APPROVED" /\ new.approval = p
        /\ new.artifact = wf.artifact /\ new.checkpoint = wf.checkpoint
        /\ new.outcome = wf.outcome /\ new.verification = wf.verification
        /\ new.recovery = wf.recovery
    BY <1>1, StatesAre DEF WorkflowRecord
  <2>3. withApproval(w, p) = new
    BY <1>3 DEF withApproval
  <2> HIDE DEF new
  <2>4. Approved(new, approvals)
    BY <2>1, <2>2, NoneAssumption DEF Approved, validApproval
  <2>5. Sound(new, approvals, checkpoints)
    BY <1>1, <2>1, <2>2, <2>4 DEF Sound, SoundMutation, SoundVerdict, SoundRecovery, Pending
  <2>6. QED
    BY <2>1, <2>2, <2>3, <2>5
<1>4. QED
  BY <1>2, <1>3

\* An apply, at every point at which it may end.
LEMMA ApplyKeeps ==
    ASSUME Inductive, NEW w \in Workflow, applyStep(w)
    PROVE  Inductive'
<1>0. RestOK
  BY RestTyped DEF Inductive
<1> DEFINE wf == workflows[w]
<1>1. ASSUME NEW p \in Approval, applyUnapproved(w, p) PROVE Inductive'
  <2> DEFINE new == [wf EXCEPT !.state = "AWAITING_APPROVAL"]
  <2>1. /\ wf \in WorkflowRecord /\ Sound(wf, approvals, checkpoints)
        /\ wf.state \in Pending
    BY <1>1, RecordOf DEF applyUnapproved, inState
  <2>2. /\ new \in WorkflowRecord /\ new.state = "AWAITING_APPROVAL"
        /\ new.approval = wf.approval /\ new.artifact = wf.artifact
        /\ new.checkpoint = wf.checkpoint /\ new.outcome = wf.outcome
        /\ new.verification = wf.verification /\ new.recovery = wf.recovery
    BY <2>1, StatesAre DEF WorkflowRecord
  <2>3. /\ workflows' = [workflows EXCEPT ![w] = new]
        /\ UNCHANGED <<storeVars, checkpoints, byIdem, evidence, handle, dirtyAtApply>>
    BY <1>1 DEF applyUnapproved
  <2> HIDE DEF new
  <2>4. Sound(new, approvals, checkpoints)
    BY <2>1, <2>2 DEF Sound, SoundMutation, SoundVerdict, SoundRecovery, Pending
  <2>5. RestOK' /\ StoresGrow /\ Sound(new, approvals', checkpoints')
    BY <1>0, <2>3, <2>4, SameStoresGrow DEF RestOK, storeVars
  <2>6. QED
    BY <2>2, <2>3, <2>5, OneEdited
<1>2. ASSUME NEW p \in Approval, applyWithoutCheckpoint(w, p) PROVE Inductive'
  <2> DEFINE new == withApproval(w, p)
  <2>1. new \in WorkflowRecord /\ Sound(new, approvals, checkpoints)
    BY <1>2, WithApprovalSound DEF applyWithoutCheckpoint
  <2>2. /\ workflows' = [workflows EXCEPT ![w] = new]
        /\ UNCHANGED <<storeVars, checkpoints, byIdem, evidence, handle, dirtyAtApply>>
    BY <1>2 DEF applyWithoutCheckpoint
  <2>3. RestOK' /\ StoresGrow /\ Sound(new, approvals', checkpoints')
    BY <1>0, <2>1, <2>2, SameStoresGrow DEF RestOK, storeVars
  <2>4. QED
    BY <2>1, <2>2, <2>3, OneEdited
<1>3. ASSUME NEW cp \in Checkpoint, NEW dirty \in BOOLEAN, applyTooLate(w, cp, dirty)
      PROVE  Inductive'
  <2>1. /\ checkpoints' = [checkpoints EXCEPT ![cp] = dirty]
        /\ UNCHANGED <<storeVars, workflows, byIdem, evidence, handle, dirtyAtApply>>
    BY <1>3 DEF applyTooLate
  <2>2. StoresGrow
    BY <1>0, <2>1, NoneAssumption DEF StoresGrow, RestOK, storeVars
  <2>3. RestOK'
    BY <1>0, <2>1 DEF RestOK, storeVars
  <2>4. QED
    BY <2>1, <2>2, <2>3, NothingEdited
<1>4. ASSUME NEW p \in Approval, NEW cp \in Checkpoint, NEW dirty \in BOOLEAN,
             NEW outcome \in MutationOutcome, apply(w, p, cp, dirty, outcome)
      PROVE  Inductive'
  <2> DEFINE next == IF outcome \in {"APPLIED", "NO_MUTATION"} THEN "APPLIED"
                     ELSE "RECOVERY_REQUIRED"
             old == withApproval(w, p)
             new == [old EXCEPT !.state = next, !.checkpoint = cp, !.outcome = outcome]
  <2>1. /\ old \in WorkflowRecord /\ Sound(old, approvals, checkpoints)
        /\ old.state = "APPROVED"
    BY <1>4, WithApprovalSound DEF apply
  <2>2. next \in States /\ outcome # None
    BY StatesAre, NoneAssumption
  <2>3. /\ checkpoints' = [checkpoints EXCEPT ![cp] = dirty]
        /\ workflows' = [workflows EXCEPT ![w] = new]
        /\ log(w, next) /\ reply(w, next)
        /\ dirtyAtApply' = [dirtyAtApply EXCEPT ![w] = dirty]
        /\ UNCHANGED <<storeVars, byIdem>>
    BY <1>4 DEF apply
  <2>4. StoresGrow
    BY <1>0, <2>3, NoneAssumption DEF StoresGrow, RestOK, storeVars
  <2>5. checkpoints' \in [Checkpoint -> BOOLEAN \cup {None}]
    BY <1>0, <2>3 DEF RestOK
  <2>6. RestOK'
    BY <1>0, <2>2, <2>3, <2>5, Told DEF RestOK, storeVars
  <2>7. Sound(old, approvals', checkpoints')
    BY <2>1, <2>4, SoundKept
  <2> HIDE DEF old
  <2>8. /\ new \in WorkflowRecord /\ new.state = next
        /\ new.checkpoint = cp /\ new.outcome = outcome
        /\ new.approval = old.approval /\ new.artifact = old.artifact
        /\ new.verification = old.verification /\ new.recovery = old.recovery
    BY <2>1, <2>2 DEF WorkflowRecord
  <2>9. next \in {"APPLIED", "RECOVERY_REQUIRED"}
        /\ (next = "APPLIED" => outcome \in {"APPLIED", "NO_MUTATION"})
    OBVIOUS
  <2> HIDE DEF new, next
  <2>10. Approved(new, approvals')
    BY <2>1, <2>7, <2>8 DEF Sound, SoundMutation, Approved
  <2>11. Covered(new, checkpoints')
    BY <1>0, <2>3, <2>8, NoneAssumption DEF Covered, RestOK
  <2>12. SoundMutation(new, approvals', checkpoints')
    BY <2>2, <2>8, <2>9, <2>10, <2>11 DEF SoundMutation, Pending
  <2>13. SoundVerdict(new) /\ SoundRecovery(new)
    BY <2>1, <2>8, <2>9 DEF Sound, SoundVerdict, SoundRecovery
  <2>14. QED
    BY <2>3, <2>4, <2>6, <2>8, <2>12, <2>13, OneEdited DEF Sound
<1>5. QED
  BY <1>1, <1>2, <1>3, <1>4 DEF applyStep

\* A verdict, a recovery, a cancellation or a look.
LEMMA LaterKeeps ==
    ASSUME Inductive, NEW w \in Workflow, laterStep(w)
    PROVE  Inductive'
<1>0. RestOK
  BY RestTyped DEF Inductive
<1> DEFINE wf == workflows[w]
<1>1. ASSUME verifyMalformed(w) PROVE Inductive'
  <2> DEFINE new == [wf EXCEPT !.state = "VERIFYING"]
  <2>1. /\ wf \in WorkflowRecord /\ Sound(wf, approvals, checkpoints)
        /\ wf.state = "APPLIED"
    BY <1>1, RecordOf DEF verifyMalformed, inState
  <2>2. /\ new \in WorkflowRecord /\ new.state = "VERIFYING"
        /\ new.approval = wf.approval /\ new.artifact = wf.artifact
        /\ new.checkpoint = wf.checkpoint /\ new.outcome = wf.outcome
        /\ new.verification = wf.verification /\ new.recovery = wf.recovery
    BY <2>1, StatesAre DEF WorkflowRecord
  <2>3. /\ workflows' = [workflows EXCEPT ![w] = new]
        /\ UNCHANGED <<storeVars, checkpoints, byIdem, evidence, handle, dirtyAtApply>>
    BY <1>1 DEF verifyMalformed
  <2> HIDE DEF new
  <2>4. Sound(new, approvals, checkpoints)
    BY <2>1, <2>2 DEF Sound, SoundMutation, SoundVerdict, SoundRecovery, Approved, Covered, Pending
  <2>5. RestOK' /\ StoresGrow /\ Sound(new, approvals', checkpoints')
    BY <1>0, <2>3, <2>4, SameStoresGrow DEF RestOK, storeVars
  <2>6. QED
    BY <2>2, <2>3, <2>5, OneEdited
<1>2. ASSUME NEW raw \in VerificationStatus \cup {"OTHER"}, NEW timedOut \in BOOLEAN,
             verify(w, raw, timedOut)
      PROVE  Inductive'
  <2> DEFINE status == normaliseStatus(raw, timedOut)
             next == IF status = "PASSED" THEN "VERIFIED" ELSE "VERIFICATION_FAILED"
             verdict == [status |-> status, timedOut |-> timedOut]
             new == [wf EXCEPT !.state = next, !.verification = verdict]
  <2>1. /\ wf \in WorkflowRecord /\ Sound(wf, approvals, checkpoints)
        /\ wf.state \in {"APPLIED", "VERIFYING"}
    BY <1>2, RecordOf DEF verify, inState
  <2>2. /\ status \in VerificationStatus
        /\ status = "PASSED" => timedOut = FALSE
    BY DEF normaliseStatus, VerificationStatus
  <2>3. /\ workflows' = [workflows EXCEPT ![w] = new]
        /\ log(w, next) /\ reply(w, next)
        /\ UNCHANGED <<storeVars, checkpoints, byIdem, dirtyAtApply>>
    BY <1>2 DEF verify
  <2> HIDE DEF status
  <2>4. /\ next \in States
        /\ next \in {"VERIFIED", "VERIFICATION_FAILED"}
        /\ next = "VERIFIED" <=> status = "PASSED"
    BY StatesAre
  <2>5. /\ verdict \in [status : VerificationStatus, timedOut : BOOLEAN]
        /\ verdict.status = status
        /\ status = "PASSED" => verdict = [status |-> "PASSED", timedOut |-> FALSE]
    BY <2>2
  <2> HIDE DEF next, verdict
  <2>6. /\ new \in WorkflowRecord /\ new.state = next /\ new.verification = verdict
        /\ new.approval = wf.approval /\ new.artifact = wf.artifact
        /\ new.checkpoint = wf.checkpoint /\ new.outcome = wf.outcome
        /\ new.recovery = wf.recovery
    BY <2>1, <2>4, <2>5 DEF WorkflowRecord
  <2> HIDE DEF new
  <2>7. SoundMutation(new, approvals, checkpoints)
    BY <2>1, <2>4, <2>6 DEF Sound, SoundMutation, Approved, Covered, Pending
  <2>8. SoundVerdict(new)
    BY <2>4, <2>5, <2>6 DEF SoundVerdict
  <2>9. SoundRecovery(new)
    BY <2>1, <2>6 DEF Sound, SoundRecovery
  <2>10. StoresGrow /\ Sound(new, approvals', checkpoints')
    BY <2>3, <2>7, <2>8, <2>9, SameStoresGrow DEF Sound, storeVars
  <2>11. RestOK'
    BY <1>0, <2>3, <2>4, Told DEF RestOK, storeVars
  <2>12. QED
    BY <2>3, <2>6, <2>10, <2>11, OneEdited
<1>3. ASSUME recoverRefused(w) PROVE Inductive'
  <2> DEFINE new == [wf EXCEPT !.state = "RECOVERY_REQUIRED"]
  <2>1. /\ wf \in WorkflowRecord /\ Sound(wf, approvals, checkpoints)
        /\ wf.state = "VERIFICATION_FAILED"
    BY <1>3, RecordOf DEF recoverRefused, inState
  <2>2. /\ new \in WorkflowRecord /\ new.state = "RECOVERY_REQUIRED"
        /\ new.approval = wf.approval /\ new.artifact = wf.artifact
        /\ new.checkpoint = wf.checkpoint /\ new.outcome = wf.outcome
        /\ new.verification = wf.verification /\ new.recovery = wf.recovery
    BY <2>1, StatesAre DEF WorkflowRecord
  <2>3. /\ workflows' = [workflows EXCEPT ![w] = new]
        /\ UNCHANGED <<storeVars, checkpoints, byIdem, evidence, handle, dirtyAtApply>>
    BY <1>3 DEF recoverRefused
  <2> HIDE DEF new
  <2>4. Sound(new, approvals, checkpoints)
    BY <2>1, <2>2 DEF Sound, SoundMutation, SoundVerdict, SoundRecovery, Approved, Covered, Pending
  <2>5. RestOK' /\ StoresGrow /\ Sound(new, approvals', checkpoints')
    BY <1>0, <2>3, <2>4, SameStoresGrow DEF RestOK, storeVars
  <2>6. QED
    BY <2>2, <2>3, <2>5, OneEdited
<1>4. ASSUME NEW strategy \in RecoveryStrategy, NEW cp \in Checkpoint \cup {None},
             NEW succeeded \in BOOLEAN, recover(w, strategy, cp, succeeded)
      PROVE  Inductive'
  <2> DEFINE next == IF succeeded THEN "RECOVERED" ELSE "FAILED"
             new == [wf EXCEPT !.state = next, !.recovery = strategy]
  <2>1. /\ wf \in WorkflowRecord /\ Sound(wf, approvals, checkpoints)
        /\ wf.state \in {"VERIFICATION_FAILED", "RECOVERY_REQUIRED"}
    BY <1>4, RecordOf DEF recover, inState
  <2>2. strategy # "MANUAL" => wf.outcome \in {"APPLIED", "PARTIAL"}
    BY <1>4 DEF recover, admissible, checkSafety
  <2>3. /\ workflows' = [workflows EXCEPT ![w] = new]
        /\ log(w, next) /\ reply(w, next)
        /\ UNCHANGED <<storeVars, checkpoints, byIdem, dirtyAtApply>>
    BY <1>4 DEF recover
  <2>4. next \in States /\ next \in {"RECOVERED", "FAILED"}
    BY StatesAre
  <2> HIDE DEF next
  <2>5. /\ new \in WorkflowRecord /\ new.state = next /\ new.recovery = strategy
        /\ new.approval = wf.approval /\ new.artifact = wf.artifact
        /\ new.checkpoint = wf.checkpoint /\ new.outcome = wf.outcome
        /\ new.verification = wf.verification
    BY <2>1, <2>4 DEF WorkflowRecord
  <2> HIDE DEF new
  <2>6. SoundMutation(new, approvals, checkpoints)
    BY <2>1, <2>4, <2>5 DEF Sound, SoundMutation, Approved, Covered, Pending
  <2>7. SoundVerdict(new) /\ SoundRecovery(new)
    BY <2>1, <2>2, <2>4, <2>5 DEF Sound, SoundVerdict, SoundRecovery
  <2>8. StoresGrow /\ Sound(new, approvals', checkpoints')
    BY <2>3, <2>6, <2>7, SameStoresGrow DEF Sound, storeVars
  <2>9. RestOK'
    BY <1>0, <2>3, <2>4, Told DEF RestOK, storeVars
  <2>10. QED
    BY <2>3, <2>5, <2>8, <2>9, OneEdited
<1>5. ASSUME cancel(w) PROVE Inductive'
  <2> DEFINE new == [wf EXCEPT !.state = "CANCELLED"]
  <2>1. /\ wf \in WorkflowRecord /\ Sound(wf, approvals, checkpoints)
        /\ wf.state \notin {"VERIFIED", "RECOVERED", "FAILED"}
    BY <1>5, RecordOf, NotCancellable DEF cancel
  <2>2. /\ new \in WorkflowRecord /\ new.state = "CANCELLED"
        /\ new.approval = wf.approval /\ new.artifact = wf.artifact
        /\ new.checkpoint = wf.checkpoint /\ new.outcome = wf.outcome
        /\ new.verification = wf.verification /\ new.recovery = wf.recovery
    BY <2>1, StatesAre DEF WorkflowRecord
  <2>3. /\ workflows' = [workflows EXCEPT ![w] = new]
        /\ log(w, "CANCELLED") /\ reply(w, "CANCELLED")
        /\ UNCHANGED <<storeVars, checkpoints, byIdem, dirtyAtApply>>
    BY <1>5 DEF cancel
  <2> HIDE DEF new
  <2>4. Sound(new, approvals, checkpoints)
    BY <2>1, <2>2 DEF Sound, SoundMutation, SoundVerdict, SoundRecovery, Approved, Covered, Pending
  <2>5. StoresGrow /\ Sound(new, approvals', checkpoints')
    BY <2>3, <2>4, SameStoresGrow DEF storeVars
  <2>6. RestOK'
    BY <1>0, <2>3, StatesAre, Told DEF RestOK, storeVars
  <2>7. QED
    BY <2>2, <2>3, <2>5, <2>6, OneEdited
<1>6. ASSUME reload(w) PROVE Inductive'
  <2>1. workflows[w].state \in States
    BY <1>6, RecordOf DEF reload, WorkflowRecord
  <2>2. /\ reply(w, workflows[w].state)
        /\ UNCHANGED <<storeVars, checkpoints, workflows, byIdem, evidence, dirtyAtApply>>
    BY <1>6 DEF reload
  <2>3. RestOK' /\ StoresGrow
    BY <1>0, <2>1, <2>2, Told, SameStoresGrow DEF RestOK, storeVars
  <2>4. QED
    BY <2>2, <2>3, NothingEdited
<1>7. QED
  BY <1>1, <1>2, <1>3, <1>4, <1>5, <1>6 DEF laterStep

LEMMA StepSound == Inductive /\ [Next]_vars => Inductive'
<1> SUFFICES ASSUME Inductive, [Next]_vars PROVE Inductive'
  OBVIOUS
<1>1. CASE Next
  BY <1>1, ApprovalsKeep, CreationKeeps, ApplyKeeps, LaterKeeps DEF Next
<1>2. CASE UNCHANGED vars
  <2>1. RestOK' /\ StoresGrow
    BY <1>2, RestTyped, SameStoresGrow DEF vars, RestOK, Inductive
  <2>2. QED
    BY <1>2, <2>1, NothingEdited DEF vars
<1>3. QED
  BY <1>1, <1>2

-----------------------------------------------------------------------------
(* What a step leaves of a record.                                          *)

Kept(w) ==
    /\ workflows[w].state \in FinalStates => workflows'[w] = workflows[w]
    /\ workflows[w].outcome # None =>
           /\ workflows'[w].outcome = workflows[w].outcome
           /\ workflows'[w].checkpoint = workflows[w].checkpoint
           /\ workflows'[w].approval = workflows[w].approval

\* A request for a workflow that exists: it replaces a record that is not final,
\* and a record with an outcome keeps what is said of the mutation.
LEMMA RequestKeeps ==
    ASSUME Inductive, NEW w \in Workflow, applyStep(w) \/ laterStep(w)
    PROVE  \/ UNCHANGED workflows
           \/ /\ exists(w) /\ Kept(w)
              /\ \A x \in Workflow \ {w} : workflows'[x] = workflows[x]
<1> DEFINE Goal == \/ UNCHANGED workflows
                   \/ /\ exists(w) /\ Kept(w)
                      /\ \A x \in Workflow \ {w} : workflows'[x] = workflows[x]
           wf == workflows[w]
<1>1. ASSUME NEW new,
             exists(w), workflows' = [workflows EXCEPT ![w] = new],
             wf.state \notin {"VERIFIED", "RECOVERED", "FAILED", "CANCELLED"},
             wf.outcome # None =>
                 /\ new.outcome = wf.outcome
                 /\ new.checkpoint = wf.checkpoint
                 /\ new.approval = wf.approval
      PROVE  Goal
  <2>1. workflows'[w] = new /\ \A x \in Workflow \ {w} : workflows'[x] = workflows[x]
    BY <1>1 DEF Inductive, TypeOK
  <2>2. Kept(w)
    BY <1>1, <2>1, FinalStatesAre DEF Kept
  <2>3. QED
    BY <1>1, <2>1, <2>2
<1> HIDE DEF Goal
<1>2. ASSUME wf.state \in Pending \cup {"APPROVED"}, exists(w) PROVE wf.outcome = None
  BY <1>2, RecordOf DEF Sound, SoundMutation
<1>3. ASSUME NEW p \in Approval, applyUnapproved(w, p) PROVE Goal
  <2> DEFINE new == [wf EXCEPT !.state = "AWAITING_APPROVAL"]
  <2>1. workflows' = [workflows EXCEPT ![w] = new] /\ exists(w) /\ wf.state \in Pending
    BY <1>3 DEF applyUnapproved, inState
  <2>2. QED
    BY <1>1, <1>2, <2>1 DEF Pending
<1>4. ASSUME NEW p \in Approval, applyWithoutCheckpoint(w, p) PROVE Goal
  <2>1. /\ workflows' = [workflows EXCEPT ![w] = withApproval(w, p)] /\ exists(w)
        /\ wf.state \in Pending \cup {"APPROVED"}
    BY <1>4 DEF applyWithoutCheckpoint, approvedNow, inState
  <2>2. QED
    BY <1>1, <1>2, <2>1 DEF Pending
<1>5. ASSUME NEW cp \in Checkpoint, NEW dirty \in BOOLEAN, applyTooLate(w, cp, dirty)
      PROVE  Goal
  BY <1>5 DEF applyTooLate, Goal
<1>6. ASSUME NEW p \in Approval, NEW cp \in Checkpoint, NEW dirty \in BOOLEAN,
             NEW outcome \in MutationOutcome, apply(w, p, cp, dirty, outcome)
      PROVE  Goal
  <2>1. wf.state \in Pending \cup {"APPROVED"} /\ exists(w)
    BY <1>6 DEF apply, approvedNow, inState
  <2>2. PICK new : workflows' = [workflows EXCEPT ![w] = new]
    BY <1>6 DEF apply
  <2>3. QED
    BY <1>1, <1>2, <2>1, <2>2 DEF Pending
<1>7. ASSUME verifyMalformed(w) PROVE Goal
  <2> DEFINE new == [wf EXCEPT !.state = "VERIFYING"]
  <2>1. workflows' = [workflows EXCEPT ![w] = new] /\ exists(w) /\ wf.state = "APPLIED"
    BY <1>7 DEF verifyMalformed, inState
  <2>2. new.outcome = wf.outcome /\ new.checkpoint = wf.checkpoint /\ new.approval = wf.approval
    BY <2>1, RecordOf DEF WorkflowRecord
  <2>3. QED
    BY <1>1, <2>1, <2>2
<1>8. ASSUME NEW raw \in VerificationStatus \cup {"OTHER"}, NEW timedOut \in BOOLEAN,
             verify(w, raw, timedOut)
      PROVE  Goal
  <2> DEFINE status == normaliseStatus(raw, timedOut)
             next == IF status = "PASSED" THEN "VERIFIED" ELSE "VERIFICATION_FAILED"
             verdict == [status |-> status, timedOut |-> timedOut]
             new == [wf EXCEPT !.state = next, !.verification = verdict]
  <2>1. /\ workflows' = [workflows EXCEPT ![w] = new]
        /\ exists(w) /\ wf.state \in {"APPLIED", "VERIFYING"}
    BY <1>8 DEF verify, inState
  <2> HIDE DEF next, verdict
  <2>2. new.outcome = wf.outcome /\ new.checkpoint = wf.checkpoint /\ new.approval = wf.approval
    BY <2>1, RecordOf DEF WorkflowRecord
  <2>3. QED
    BY <1>1, <2>1, <2>2
<1>9. ASSUME recoverRefused(w) PROVE Goal
  <2> DEFINE new == [wf EXCEPT !.state = "RECOVERY_REQUIRED"]
  <2>1. /\ workflows' = [workflows EXCEPT ![w] = new]
        /\ exists(w) /\ wf.state = "VERIFICATION_FAILED"
    BY <1>9 DEF recoverRefused, inState
  <2>2. new.outcome = wf.outcome /\ new.checkpoint = wf.checkpoint /\ new.approval = wf.approval
    BY <2>1, RecordOf DEF WorkflowRecord
  <2>3. QED
    BY <1>1, <2>1, <2>2
<1>10. ASSUME NEW strategy \in RecoveryStrategy, NEW cp \in Checkpoint \cup {None},
              NEW succeeded \in BOOLEAN, recover(w, strategy, cp, succeeded)
       PROVE  Goal
  <2> DEFINE next == IF succeeded THEN "RECOVERED" ELSE "FAILED"
             new == [wf EXCEPT !.state = next, !.recovery = strategy]
  <2>1. /\ workflows' = [workflows EXCEPT ![w] = new]
        /\ exists(w) /\ wf.state \in {"VERIFICATION_FAILED", "RECOVERY_REQUIRED"}
    BY <1>10 DEF recover, inState
  <2> HIDE DEF next
  <2>2. new.outcome = wf.outcome /\ new.checkpoint = wf.checkpoint /\ new.approval = wf.approval
    BY <2>1, RecordOf DEF WorkflowRecord
  <2>3. QED
    BY <1>1, <2>1, <2>2
<1>11. ASSUME cancel(w) PROVE Goal
  <2> DEFINE new == [wf EXCEPT !.state = "CANCELLED"]
  <2>1. /\ workflows' = [workflows EXCEPT ![w] = new] /\ exists(w)
        /\ wf.state \notin {"VERIFIED", "RECOVERED", "FAILED", "CANCELLED"}
    BY <1>11, NotCancellable DEF cancel
  <2>2. new.outcome = wf.outcome /\ new.checkpoint = wf.checkpoint /\ new.approval = wf.approval
    BY <2>1, RecordOf DEF WorkflowRecord
  <2>3. QED
    BY <1>1, <2>1, <2>2
<1>12. ASSUME reload(w) PROVE Goal
  BY <1>12 DEF reload, Goal
<1>13. Goal
  BY <1>3, <1>4, <1>5, <1>6, <1>7, <1>8, <1>9, <1>10, <1>11, <1>12 DEF applyStep, laterStep
<1>14. QED
  BY <1>13 DEF Goal

\* Any step, and any workflow that exists.
LEMMA StepKeeps ==
    ASSUME Inductive, [Next]_vars, NEW x \in Workflow, exists(x)
    PROVE  Kept(x)
<1>1. ASSUME workflows'[x] = workflows[x] PROVE Kept(x)
  BY <1>1 DEF Kept
<1>2. ASSUME approvalStep PROVE workflows'[x] = workflows[x]
  BY <1>2 DEF approvalStep, registerArtifact, approveArtifact, denyArtifact, expire
<1>3. ASSUME NEW w \in Workflow, NEW a \in Artifact, NEW key \in Key \cup {None},
             create(w, a, key)
      PROVE  workflows'[x] = workflows[x]
  <2>1. w # x
    BY <1>3 DEF create
  <2>2. QED
    BY <1>3, <2>1 DEF create, Inductive, TypeOK
<1>4. ASSUME NEW key \in Key, createAgain(key) PROVE workflows'[x] = workflows[x]
  BY <1>4 DEF createAgain
<1>5. ASSUME NEW w \in Workflow, applyStep(w) \/ laterStep(w) PROVE Kept(x)
  BY <1>1, <1>5, RequestKeeps
<1>6. CASE UNCHANGED vars
  BY <1>1, <1>6 DEF vars
<1>7. QED
  BY <1>1, <1>2, <1>3, <1>4, <1>5, <1>6 DEF Next

-----------------------------------------------------------------------------
(* What the evidence log tells of a workflow.                               *)

\* The events of a log that name a state.
Naming(events, state) == {i \in DOMAIN events : events[i] = state}

\* A log that begins with the creation, has one event for the state that the
\* workflow has come to if that is a final one, and none for any other.
Tells(events, state) ==
    /\ events # <<>> /\ events[1] = "DRAFT"
    /\ \A final \in FinalStates :
           IF state = final THEN \E i \in DOMAIN events : Naming(events, final) = {i}
           ELSE Naming(events, final) = {}

\* The idempotency index leads to workflows that exist, a workflow that exists
\* has a log that tells its state, and no other has a log.
LogsTell ==
    /\ \A key \in Key : byIdem[key] # None => exists(byIdem[key])
    /\ \A w \in Workflow :
           IF exists(w) THEN Tells(evidence[w], workflows[w].state) ELSE evidence[w] = <<>>

\* The three things that a request may do to the records and their logs, w being
\* the workflow that it is for: nothing; an edit that is not logged; an edit with
\* the event of the new state.
Nothing == UNCHANGED <<workflows, evidence, byIdem>>

Edited(w, state) ==
    /\ exists(w) /\ workflows[w].state \notin FinalStates
    /\ workflows'[w] # None /\ workflows'[w].state = state
    /\ \A x \in Workflow \ {w} : workflows'[x] = workflows[x]
    /\ UNCHANGED byIdem

SilentEdit(w, state) == Edited(w, state) /\ state \notin FinalStates /\ UNCHANGED evidence

LoggedEdit(w, state) == Edited(w, state) /\ log(w, state)

\* A log that an event is appended to.
LEMMA OneMoreEvent ==
    ASSUME NEW events \in Seq(States), NEW state \in States
    PROVE  /\ Append(events, state) # <<>>
           /\ events # <<>> => Append(events, state)[1] = events[1]
           /\ events = <<>> => Append(events, state)[1] = state
           /\ \A x \in States \ {state} : Naming(Append(events, state), x) = Naming(events, x)
           /\ Naming(events, state) = {} =>
                  Naming(Append(events, state), state) = {Len(events) + 1}
           /\ Len(events) + 1 \in DOMAIN Append(events, state)
<1> DEFINE n == Len(events)
           longer == Append(events, state)
<1>1. /\ longer \in Seq(States) /\ Len(longer) = n + 1 /\ longer[n + 1] = state
      /\ \A i \in 1 .. n : longer[i] = events[i]
  BY AppendProperties
<1>2. n \in Nat /\ DOMAIN events = 1 .. n /\ DOMAIN longer = 1 .. (n + 1)
  BY <1>1, LenProperties
<1>3. longer # <<>> /\ (events = <<>> <=> n = 0)
  BY <1>1, <1>2, EmptySeq
<1> HIDE DEF n, longer
<1>4. 1 .. (n + 1) = (1 .. n) \cup {n + 1} /\ n + 1 \notin 1 .. n
  BY <1>2
<1>5. events # <<>> => longer[1] = events[1]
  BY <1>1, <1>2, <1>3
<1>6. events = <<>> => longer[1] = state
  BY <1>1, <1>2, <1>3
<1>7. \A x \in States \ {state} : Naming(longer, x) = Naming(events, x)
  BY <1>1, <1>2, <1>4 DEF Naming
<1>8. Naming(events, state) = {} => Naming(longer, state) = {n + 1}
  BY <1>1, <1>2, <1>4 DEF Naming
<1>9. QED
  BY <1>2, <1>3, <1>4, <1>5, <1>6, <1>7, <1>8 DEF n, longer

\* An edit of a workflow that had not ended, with the event of its new state.
LEMMA LogTells ==
    ASSUME NEW events \in Seq(States), NEW old \in States \ FinalStates, NEW state \in States,
           Tells(events, old)
    PROVE  Tells(Append(events, state), state)
<1> DEFINE longer == Append(events, state)
<1>1. longer # <<>> /\ longer[1] = "DRAFT"
  BY OneMoreEvent DEF Tells
<1>2. \A final \in FinalStates : Naming(events, final) = {}
  BY DEF Tells
<1>3. ASSUME NEW final \in FinalStates
      PROVE  IF state = final THEN \E i \in DOMAIN longer : Naming(longer, final) = {i}
             ELSE Naming(longer, final) = {}
  <2>1. final \in States
    BY FinalStatesAre, StatesAre
  <2>2. QED
    BY <1>2, <2>1, OneMoreEvent
<1>4. QED
  BY <1>1, <1>3 DEF Tells

\* A repeated creation is no final event.
LEMMA RepeatTells ==
    ASSUME NEW events \in Seq(States), NEW state \in States, Tells(events, state)
    PROVE  Tells(Append(events, "DRAFT"), state)
<1> DEFINE longer == Append(events, "DRAFT")
<1>0. "DRAFT" \in States
  BY StatesAre
<1>1. longer # <<>> /\ longer[1] = "DRAFT" /\ Len(events) + 1 \in DOMAIN longer
  BY <1>0, OneMoreEvent DEF Tells
<1>2. \A final \in FinalStates : Naming(longer, final) = Naming(events, final)
  BY <1>0, OneMoreEvent, FinalStatesAre, StatesAre
<1>3. DOMAIN events \subseteq DOMAIN longer
  BY <1>0, AppendProperties, LenProperties
<1>4. ASSUME NEW final \in FinalStates
      PROVE  IF state = final THEN \E i \in DOMAIN longer : Naming(longer, final) = {i}
             ELSE Naming(longer, final) = {}
  BY <1>2, <1>3 DEF Tells
<1>5. QED
  BY <1>1, <1>4 DEF Tells

\* What a request for an existing workflow does.
LEMMA RequestEdits ==
    ASSUME Inductive, NEW w \in Workflow, applyStep(w) \/ laterStep(w)
    PROVE  Nothing \/ \E state \in States : SilentEdit(w, state) \/ LoggedEdit(w, state)
<1> DEFINE Goal == Nothing \/ \E state \in States : SilentEdit(w, state) \/ LoggedEdit(w, state)
           wf == workflows[w]
<1>1. ASSUME NEW new \in WorkflowRecord, NEW state \in States,
             exists(w), wf.state \notin {"VERIFIED", "RECOVERED", "FAILED", "CANCELLED"},
             workflows' = [workflows EXCEPT ![w] = new], new.state = state, UNCHANGED byIdem,
             \/ log(w, state)
             \/ state \notin {"VERIFIED", "RECOVERED", "FAILED", "CANCELLED"}
                /\ UNCHANGED evidence
      PROVE  Goal
  <2>1. workflows'[w] = new /\ \A x \in Workflow \ {w} : workflows'[x] = workflows[x]
    BY <1>1 DEF Inductive, TypeOK
  <2>2. new # None
    BY NoneAssumption
  <2>3. Edited(w, state)
    BY <1>1, <2>1, <2>2, FinalStatesAre DEF Edited
  <2>4. QED
    BY <1>1, <2>3, FinalStatesAre DEF SilentEdit, LoggedEdit
<1> HIDE DEF Goal
<1>2. ASSUME NEW p \in Approval, applyUnapproved(w, p) PROVE Goal
  <2> DEFINE new == [wf EXCEPT !.state = "AWAITING_APPROVAL"]
  <2>1. /\ workflows' = [workflows EXCEPT ![w] = new] /\ exists(w) /\ wf.state \in Pending
        /\ UNCHANGED <<byIdem, evidence>>
    BY <1>2 DEF applyUnapproved, inState
  <2>2. new \in WorkflowRecord /\ new.state = "AWAITING_APPROVAL"
    BY <2>1, RecordOf, StatesAre DEF WorkflowRecord
  <2> HIDE DEF new
  <2>3. QED
    BY <1>1, <2>1, <2>2, StatesAre DEF Pending
<1>3. ASSUME NEW p \in Approval, applyWithoutCheckpoint(w, p) PROVE Goal
  <2> DEFINE new == withApproval(w, p)
  <2>1. /\ workflows' = [workflows EXCEPT ![w] = new] /\ exists(w)
        /\ UNCHANGED <<byIdem, evidence>>
    BY <1>3 DEF applyWithoutCheckpoint, approvedNow, inState
  <2>2. /\ new \in WorkflowRecord /\ new.state = "APPROVED"
        /\ wf.state \in Pending \cup {"APPROVED"}
    BY <1>3, WithApprovalSound DEF applyWithoutCheckpoint
  <2> HIDE DEF new
  <2>3. QED
    BY <1>1, <2>1, <2>2, StatesAre DEF Pending
<1>4. ASSUME NEW cp \in Checkpoint, NEW dirty \in BOOLEAN, applyTooLate(w, cp, dirty)
      PROVE  Goal
  BY <1>4 DEF applyTooLate, Goal, Nothing
<1>5. ASSUME NEW p \in Approval, NEW cp \in Checkpoint, NEW dirty \in BOOLEAN,
             NEW outcome \in MutationOutcome, apply(w, p, cp, dirty, outcome)
      PROVE  Goal
  <2> DEFINE next == IF outcome \in {"APPLIED", "NO_MUTATION"} THEN "APPLIED"
                     ELSE "RECOVERY_REQUIRED"
             old == withApproval(w, p)
             new == [old EXCEPT !.state = next, !.checkpoint = cp, !.outcome = outcome]
  <2>1. /\ workflows' = [workflows EXCEPT ![w] = new] /\ approvedNow(w, p)
        /\ log(w, next) /\ UNCHANGED byIdem
    BY <1>5 DEF apply
  <2>2. /\ old \in WorkflowRecord /\ exists(w)
        /\ wf.state \in Pending \cup {"APPROVED"}
    BY <2>1, WithApprovalSound DEF approvedNow, inState
  <2>3. next \in States
    BY StatesAre
  <2> HIDE DEF old, next
  <2>4. new \in WorkflowRecord /\ new.state = next
    BY <2>2, <2>3 DEF WorkflowRecord
  <2> HIDE DEF new
  <2>5. QED
    BY <1>1, <2>1, <2>2, <2>3, <2>4 DEF Pending
<1>6. ASSUME verifyMalformed(w) PROVE Goal
  <2> DEFINE new == [wf EXCEPT !.state = "VERIFYING"]
  <2>1. /\ workflows' = [workflows EXCEPT ![w] = new] /\ exists(w) /\ wf.state = "APPLIED"
        /\ UNCHANGED <<byIdem, evidence>>
    BY <1>6 DEF verifyMalformed, inState
  <2>2. new \in WorkflowRecord /\ new.state = "VERIFYING"
    BY <2>1, RecordOf, StatesAre DEF WorkflowRecord
  <2> HIDE DEF new
  <2>3. QED
    BY <1>1, <2>1, <2>2, StatesAre
<1>7. ASSUME NEW raw \in VerificationStatus \cup {"OTHER"}, NEW timedOut \in BOOLEAN,
             verify(w, raw, timedOut)
      PROVE  Goal
  <2> DEFINE status == normaliseStatus(raw, timedOut)
             next == IF status = "PASSED" THEN "VERIFIED" ELSE "VERIFICATION_FAILED"
             verdict == [status |-> status, timedOut |-> timedOut]
             new == [wf EXCEPT !.state = next, !.verification = verdict]
  <2>1. /\ workflows' = [workflows EXCEPT ![w] = new]
        /\ exists(w) /\ wf.state \in {"APPLIED", "VERIFYING"}
        /\ log(w, next) /\ UNCHANGED byIdem
    BY <1>7 DEF verify, inState
  <2>2. next \in States
    BY StatesAre
  <2>3. verdict \in [status : VerificationStatus, timedOut : BOOLEAN]
    BY DEF normaliseStatus, VerificationStatus
  <2> HIDE DEF next, verdict
  <2>4. new \in WorkflowRecord /\ new.state = next
    BY <2>1, <2>2, <2>3, RecordOf DEF WorkflowRecord
  <2> HIDE DEF new
  <2>5. QED
    BY <1>1, <2>1, <2>2, <2>4
<1>8. ASSUME recoverRefused(w) PROVE Goal
  <2> DEFINE new == [wf EXCEPT !.state = "RECOVERY_REQUIRED"]
  <2>1. /\ workflows' = [workflows EXCEPT ![w] = new]
        /\ exists(w) /\ wf.state = "VERIFICATION_FAILED"
        /\ UNCHANGED <<byIdem, evidence>>
    BY <1>8 DEF recoverRefused, inState
  <2>2. new \in WorkflowRecord /\ new.state = "RECOVERY_REQUIRED"
    BY <2>1, RecordOf, StatesAre DEF WorkflowRecord
  <2> HIDE DEF new
  <2>3. QED
    BY <1>1, <2>1, <2>2, StatesAre
<1>9. ASSUME NEW strategy \in RecoveryStrategy, NEW cp \in Checkpoint \cup {None},
             NEW succeeded \in BOOLEAN, recover(w, strategy, cp, succeeded)
      PROVE  Goal
  <2> DEFINE next == IF succeeded THEN "RECOVERED" ELSE "FAILED"
             new == [wf EXCEPT !.state = next, !.recovery = strategy]
  <2>1. /\ workflows' = [workflows EXCEPT ![w] = new]
        /\ exists(w) /\ wf.state \in {"VERIFICATION_FAILED", "RECOVERY_REQUIRED"}
        /\ log(w, next) /\ UNCHANGED byIdem
    BY <1>9 DEF recover, inState
  <2>2. next \in States
    BY StatesAre
  <2> HIDE DEF next
  <2>3. new \in WorkflowRecord /\ new.state = next
    BY <2>1, <2>2, RecordOf DEF WorkflowRecord
  <2> HIDE DEF new
  <2>4. QED
    BY <1>1, <2>1, <2>2, <2>3
<1>10. ASSUME cancel(w) PROVE Goal
  <2> DEFINE new == [wf EXCEPT !.state = "CANCELLED"]
  <2>1. /\ workflows' = [workflows EXCEPT ![w] = new] /\ exists(w)
        /\ wf.state \notin {"VERIFIED", "RECOVERED", "FAILED", "CANCELLED"}
        /\ log(w, "CANCELLED") /\ UNCHANGED byIdem
    BY <1>10, NotCancellable DEF cancel
  <2>2. new \in WorkflowRecord /\ new.state = "CANCELLED"
    BY <2>1, RecordOf, StatesAre DEF WorkflowRecord
  <2> HIDE DEF new
  <2>3. QED
    BY <1>1, <2>1, <2>2, StatesAre
<1>11. ASSUME reload(w) PROVE Goal
  BY <1>11 DEF reload, Goal, Nothing
<1>12. Goal
  BY <1>2, <1>3, <1>4, <1>5, <1>6, <1>7, <1>8, <1>9, <1>10, <1>11 DEF applyStep, laterStep
<1>13. QED
  BY <1>12 DEF Goal

\* An edit keeps the logs true to the records.
LEMMA EditTells ==
    ASSUME Inductive, LogsTell, NEW w \in Workflow, NEW state \in States,
           SilentEdit(w, state) \/ LoggedEdit(w, state)
    PROVE  LogsTell'
<1>1. Edited(w, state)
  BY DEF SilentEdit, LoggedEdit
<1>2. ASSUME NEW x \in Workflow PROVE exists(x)' <=> exists(x)
  BY <1>1 DEF Edited, exists
<1>3. ASSUME NEW key \in Key, byIdem'[key] # None PROVE workflows'[byIdem'[key]] # None
  BY <1>1, <1>3 DEF Edited, exists, LogsTell, Inductive, TypeOK
<1>4. /\ workflows[w].state \in States \ FinalStates /\ evidence[w] \in Seq(States)
      /\ Tells(evidence[w], workflows[w].state)
  BY <1>1, RecordOf DEF Edited, LogsTell, WorkflowRecord, Inductive, TypeOK
<1>5. Tells(evidence'[w], workflows'[w].state)
  <2>1. CASE SilentEdit(w, state)
    BY <1>1, <1>4, <2>1 DEF SilentEdit, Edited, Tells
  <2>2. CASE LoggedEdit(w, state)
    <3>1. evidence'[w] = Append(evidence[w], state) /\ workflows'[w].state = state
      BY <2>2 DEF LoggedEdit, Edited, log, Inductive, TypeOK
    <3>2. QED
      BY <1>4, <3>1, LogTells
  <2>3. QED
    BY <2>1, <2>2
<1>6. ASSUME NEW x \in Workflow, x # w
      PROVE  workflows'[x] = workflows[x] /\ evidence'[x] = evidence[x]
  BY <1>1, <1>6 DEF Edited, SilentEdit, LoggedEdit, log, Inductive, TypeOK
<1>7. ASSUME NEW x \in Workflow
      PROVE  IF workflows'[x] # None THEN Tells(evidence'[x], workflows'[x].state)
             ELSE evidence'[x] = <<>>
  <2>1. CASE x = w
    BY <1>1, <1>5, <2>1 DEF Edited
  <2>2. CASE x # w
    BY <1>6, <2>2 DEF LogsTell, exists
  <2>3. QED
    BY <2>1, <2>2
<1>8. QED
  BY <1>3, <1>7 DEF LogsTell, exists

\* What neither edits a record nor logs anything.
LEMMA NothingTells ==
    ASSUME LogsTell, Nothing
    PROVE  LogsTell'
BY DEF LogsTell, Nothing, exists

\* A creation begins a log; a repeated one is logged again.
LEMMA CreationTells ==
    ASSUME Inductive, LogsTell,
           \/ \E w \in Workflow, a \in Artifact, key \in Key \cup {None} : create(w, a, key)
           \/ \E key \in Key : createAgain(key)
    PROVE  LogsTell'
<1>0. "DRAFT" \in States \ FinalStates
  BY StatesAre, FinalStatesAre
<1>1. ASSUME NEW w \in Workflow, NEW a \in Artifact, NEW key \in Key \cup {None},
             create(w, a, key)
      PROVE  LogsTell'
  <2>1. ~ exists(w)
    BY <1>1 DEF create
  <2>2. evidence[w] = <<>>
    BY <2>1 DEF LogsTell
  <2>3. workflows'[w] = draft(a) /\ draft(a) \in WorkflowRecord /\ draft(a).state = "DRAFT"
    BY <1>0, <1>1 DEF create, draft, WorkflowRecord, Inductive, TypeOK
  <2>4. evidence'[w] = Append(<<>>, "DRAFT")
    BY <1>1, <2>2 DEF create, log, Inductive, TypeOK
  <2>5. \A x \in Workflow \ {w} :
            workflows'[x] = workflows[x] /\ evidence'[x] = evidence[x]
    BY <1>1 DEF create, log, Inductive, TypeOK
  <2>6. Tells(evidence'[w], workflows'[w].state)
    <3> DEFINE events == << >>
               longer == Append(events, "DRAFT")
    <3>1. events \in Seq(States) /\ \A final \in FinalStates : Naming(events, final) = {}
      BY DEF Naming
    <3>2. FinalStates \subseteq States \ {"DRAFT"}
      BY StatesAre, FinalStatesAre
    <3>3. evidence'[w] = longer /\ events = << >>
      BY <2>4
    <3> HIDE DEF events
    <3>4. longer # << >> /\ longer[1] = "DRAFT"
      BY <1>0, <3>1, <3>3, OneMoreEvent
    <3>5. \A final \in FinalStates : Naming(longer, final) = {}
      BY <1>0, <3>1, <3>2, OneMoreEvent
    <3>6. Tells(longer, "DRAFT")
      BY <1>0, <3>4, <3>5 DEF Tells
    <3>7. QED
      BY <2>3, <3>3, <3>6
  <2>7. workflows'[w] # None
    BY <2>3, NoneAssumption
  <2>8. ASSUME NEW x \in Workflow
        PROVE  IF workflows'[x] # None THEN Tells(evidence'[x], workflows'[x].state)
               ELSE evidence'[x] = <<>>
    <3>1. CASE x = w
      BY <2>6, <2>7, <3>1
    <3>2. CASE x # w
      BY <2>5, <3>2 DEF LogsTell, exists
    <3>3. QED
      BY <3>1, <3>2
  <2>9. ASSUME NEW k \in Key, byIdem'[k] # None PROVE workflows'[byIdem'[k]] # None
    <3>1. byIdem'[k] = w \/ byIdem'[k] = byIdem[k]
      BY <1>1 DEF create, Inductive, TypeOK
    <3>2. CASE byIdem'[k] = w
      BY <2>7, <3>2
    <3>3. CASE byIdem'[k] = byIdem[k]
      <4>1. byIdem[k] \in Workflow /\ workflows[byIdem[k]] # None
        BY <2>9, <3>3 DEF LogsTell, exists, Inductive, TypeOK
      <4>2. QED
        BY <2>5, <2>7, <3>3, <4>1
    <3>4. QED
      BY <3>1, <3>2, <3>3
  <2>10. QED
    BY <2>8, <2>9 DEF LogsTell, exists
<1>2. ASSUME NEW key \in Key, createAgain(key) PROVE LogsTell'
  <2>1. PICK w \in Workflow : w = byIdem[key]
    BY <1>2 DEF createAgain, Inductive, TypeOK
  <2>2. /\ UNCHANGED <<workflows, byIdem>>
        /\ evidence'[w] = Append(evidence[w], "DRAFT")
        /\ \A x \in Workflow \ {w} : evidence'[x] = evidence[x]
    BY <1>2, <2>1 DEF createAgain, log, Inductive, TypeOK
  <2>3. exists(w) /\ Tells(evidence[w], workflows[w].state)
    BY <1>2, <2>1 DEF createAgain, LogsTell
  <2>4. workflows[w].state \in States /\ evidence[w] \in Seq(States)
    BY <2>3, RecordOf DEF WorkflowRecord, Inductive, TypeOK
  <2>5. Tells(evidence'[w], workflows[w].state)
    BY <2>2, <2>3, <2>4, RepeatTells
  <2>6. ASSUME NEW x \in Workflow
        PROVE  IF workflows[x] # None THEN Tells(evidence'[x], workflows[x].state)
               ELSE evidence'[x] = <<>>
    <3>1. CASE x = w
      BY <2>3, <2>5, <3>1 DEF exists
    <3>2. CASE x # w
      BY <2>2, <3>2 DEF LogsTell, exists
    <3>3. QED
      BY <3>1, <3>2
  <2>7. QED
    BY <2>2, <2>6 DEF LogsTell, exists
<1>3. QED
  BY <1>1, <1>2

LEMMA StepTells == Inductive /\ LogsTell /\ [Next]_vars => LogsTell'
<1> SUFFICES ASSUME Inductive, LogsTell, [Next]_vars PROVE LogsTell'
  OBVIOUS
<1>1. CASE approvalStep
  <2>1. Nothing
    BY <1>1 DEF approvalStep, registerArtifact, approveArtifact, denyArtifact, expire, Nothing
  <2>2. QED
    BY <2>1, NothingTells
<1>2. ASSUME NEW w \in Workflow, applyStep(w) \/ laterStep(w) PROVE LogsTell'
  BY <1>2, RequestEdits, NothingTells, EditTells
<1>3. CASE UNCHANGED vars
  BY <1>3, NothingTells DEF vars, Nothing
<1>4. QED
  BY <1>1, <1>2, <1>3, CreationTells DEF Next

-----------------------------------------------------------------------------
(* The theorems.                                                            *)

\* Every reachable state satisfies the inductive invariant.
THEOREM AlwaysInductive == Spec => []Inductive
BY InitSound, StepSound, PTL DEF Spec

\* The control plane's stores hold what their declarations say.
THEOREM ControlTypeCorrect == Spec => []TypeOK
<1>1. Inductive => TypeOK
  BY DEF Inductive
<1>2. QED
  BY <1>1, AlwaysInductive, PTL

\* No mutation without an approval of its artifact and a checkpoint, and no
\* VERIFIED without both a mutation that went through and a verdict in time.
THEOREM MutationsApproved == Spec => []MutationsAreApproved
<1>1. Inductive => MutationsAreApproved
  BY DEF Inductive, MutationsAreApproved, Sound, SoundMutation, SoundVerdict, Approved, Covered,
         Pending
<1>2. QED
  BY <1>1, AlwaysInductive, PTL

\* No automatic recovery of what was not or may not have been done.
THEOREM RecoveriesCaused == Spec => []AutomaticRecoveryHasACause
<1>1. Inductive => AutomaticRecoveryHasACause
  BY DEF Inductive, AutomaticRecoveryHasACause, Sound, SoundRecovery, SoundVerdict
<1>2. QED
  BY <1>1, AlwaysInductive, PTL

\* No request changes the record of a workflow that has ended.
THEOREM FinalFrozen == Spec => FinalWorkflowsAreFrozen
<1>1. Inductive /\ [Next]_vars =>
          [\A w \in Workflow : inState(w, FinalStates) => workflows'[w] = workflows[w]]_vars
  BY StepKeeps DEF Kept, inState
<1>2. QED
  BY <1>1, AlwaysInductive, PTL DEF Spec, FinalWorkflowsAreFrozen

\* What a record says of its mutation is never that of a later request.
THEOREM MutatedOnce == Spec => MutatesOnce
<1>1. Inductive /\ [Next]_vars =>
          [\A w \in Workflow : exists(w) /\ workflows[w].outcome # None =>
               /\ workflows'[w].outcome = workflows[w].outcome
               /\ workflows'[w].checkpoint = workflows[w].checkpoint
               /\ workflows'[w].approval = workflows[w].approval]_vars
  BY StepKeeps DEF Kept
<1>2. QED
  BY <1>1, AlwaysInductive, PTL DEF Spec, MutatesOnce

\* Every workflow's log tells its state.
THEOREM LogsAlwaysTell == Spec => [](Inductive /\ LogsTell)
<1>1. Init => Inductive /\ LogsTell
  BY InitSound DEF Init, LogsTell, exists
<1>2. QED
  BY <1>1, StepSound, StepTells, PTL DEF Spec

\* The evidence of a workflow that has ended names the end, and only that one.
THEOREM OutcomesTold == Spec => []EvidenceTellsTheOutcome
<1>1. ASSUME LogsTell PROVE EvidenceTellsTheOutcome
  <2>1. ASSUME NEW w \in Workflow, exists(w), NEW state \in FinalStates
        PROVE  Cardinality({i \in DOMAIN evidence[w] : evidence[w][i] = state}) =
                   IF workflows[w].state = state THEN 1 ELSE 0
    <3>1. IF workflows[w].state = state
          THEN \E i \in DOMAIN evidence[w] : Naming(evidence[w], state) = {i}
          ELSE Naming(evidence[w], state) = {}
      BY <1>1, <2>1 DEF LogsTell, Tells
    <3>2. Cardinality(Naming(evidence[w], state)) =
              IF workflows[w].state = state THEN 1 ELSE 0
      BY <3>1, FS_EmptySet, FS_Singleton
    <3>3. QED
      BY <3>2 DEF Naming
  <2>2. QED
    BY <1>1, <2>1 DEF EvidenceTellsTheOutcome, LogsTell, Tells
<1>2. QED
  BY <1>1, LogsAlwaysTell, PTL
=============================================================================
