-------------------------- MODULE PackageQuarantine --------------------------
(***************************************************************************)
(* Quarantine of one package artifact.  A request names an operation, a    *)
(* trust decision and a policy; the controller resolves a containment mode *)
(* and the executor runs the steps of that mode against an artifact        *)
(* storage and a lock, each call of which may be refused.  Two requests    *)
(* may be the same operation, sent twice, or different operations on the   *)
(* same artifact.  A lock goes by the operation, a destination by what is  *)
(* left of the operation's name in a path, so that operations which lock   *)
(* each other out of nothing may still put the artifact in one place.      *)
(*                                                                         *)
(* Left out: requests that the two validators refuse and a look-up of the  *)
(* operation that throws, which change nothing; the event sink, whose      *)
(* failures are swallowed and which nobody reads back; namespaces, which   *)
(* are only created; identity continuity, as there is one artifact and     *)
(* every copy keeps its identity.  All requests name that artifact where   *)
(* it lies, and one namespace prefix, or one that the resolver refuses.    *)
(***************************************************************************)
EXTENDS Naturals, Sequences, FiniteSetsExt

CONSTANTS
    Request,        \* the calls of quarantine()
    Operation,      \* the operation identifiers callers use
    Demand,         \* the trust decisions they send, each with a policy
    Location,       \* the paths of destinations
    locationOf,     \* the path that each operation's name is turned into
    Source,         \* where the artifact lies before it is contained
    None,           \* no artifact, no operation, no result
    PortsFail       \* whether storage, lock and records may refuse a call

ASSUME PortsMayFail == PortsFail \in BOOLEAN
ASSUME PlacesDiffer == Source \notin Location /\ None \notin Location \cup {Source}

\* Slashes, runs of spaces and double dots become dashes, so that two names may
\* end in the same path.
ASSUME LocationAssumption == locationOf \in [Operation -> Location]

VARIABLES
    store,          \* the artifact storage, by location
    locks,          \* the keys that are held
    results,        \* the recorded result of each operation
    pc,             \* where each request stands
    job             \* its locals

vars == <<store, locks, results, pc, job>>

Decision == {"trusted", "conditionally-trusted", "quarantined",
             "manual-review-required", "denied"}

Mode == {"isolate", "copy-and-seal", "seal", "deny-activation", "manual-containment"}

Outcome == {"not-required", "quarantined", "quarantined-degraded",
            "manual-intervention-required", "containment-failed",
            "verification-failed", "policy-conflict", "invalid-request"}

Place == Location \cup {Source}

\* The path ends with the operation's name, which is not kept apart from others.
resolveQuarantineLocation(o) == locationOf[o]

Artifact == [activatable : BOOLEAN, sealed : BOOLEAN]

-----------------------------------------------------------------------------
(* What a request asks for.                                                 *)

evaluateQuarantinePolicy(decision, policy) ==
    CASE decision = "trusted" /\ policy.emergency = {"quarantine", "exempt"} -> "policy-conflict"
      [] \/ decision = "denied" /\ policy.quarantineDenied
         \/ decision = "manual-review-required" /\ policy.quarantineManualReview
         \/ decision = "conditionally-trusted" /\ policy.quarantineConditionallyTrusted
         \/ decision = "quarantined"
         \/ decision = "trusted" /\ policy.emergency = {"quarantine"} -> "required"
      [] OTHER -> "not-required"

ModePreference == <<"isolate", "copy-and-seal", "seal", "deny-activation", "manual-containment">>

\* The strongest mode the policy allows; None where the resolver throws.
resolveQuarantineMode(policy) ==
    LET allowed == {i \in DOMAIN ModePreference :
                        /\ ModePreference[i] \in policy.allowedModes
                        /\ ModePreference[i] = "manual-containment" =>
                               policy.allowManualContainment}
        weaker(i) == \E d \in 1 .. i - 1 : ModePreference[d] = policy.defaultMode
    IN  IF \/ allowed = {}
           \/ /\ weaker(Min(allowed))
              /\ ~policy.allowCopyFallback /\ ~policy.allowDegradedContainment
        THEN None
        ELSE ModePreference[Min(allowed)]

\* Mutant: what was moved stays activatable.
containmentActive(mode) ==
    CASE mode = "isolate"         -> <<"seal-source", "create-namespace", "move-artifact",
                                       "verify-destination">>
      [] mode = "copy-and-seal"   -> <<"seal-source", "create-namespace", "copy-artifact",
                                       "deactivate-destination", "verify-destination",
                                       "remove-activation-reference">>
      [] mode = "seal"            -> <<"seal-source", "verify-destination">>
      [] mode = "deny-activation" -> <<"remove-activation-reference", "verify-destination">>
      [] OTHER                    -> <<>>

\* One entry per awaited call: move-artifact and copy-artifact make two, and
\* record-result, which only adds a receipt, none.
containment(mode) ==
    CASE mode = "isolate"         -> <<"seal-source", "create-namespace", "move-artifact",
                                       "deactivate-destination", "verify-destination">>
      [] mode = "copy-and-seal"   -> <<"seal-source", "create-namespace", "copy-artifact",
                                       "deactivate-destination", "verify-destination",
                                       "remove-activation-reference">>
      [] mode = "seal"            -> <<"seal-source", "verify-destination">>
      [] mode = "deny-activation" -> <<"remove-activation-reference", "verify-destination">>
      [] OTHER                    -> <<>>

stepsOf(mode) ==
    <<"acquire-lock", "validate-source">> \o containment(mode) \o <<"release-lock">>

\* The calls of verifyContainment.
checksOf(mode) ==
    CASE mode = "isolate"         -> <<"destination", "identity">>
      [] mode = "copy-and-seal"   -> <<"destination", "identity", "source-inactive">>
      [] mode = "seal"            -> <<"source-sealed">>
      [] mode = "deny-activation" -> <<"source-inactive">>
      [] OTHER                    -> <<>>

-----------------------------------------------------------------------------
Job == [operation : Operation, demand : Demand, mode : Mode \cup {None},
        step : 1 .. 9, holds : BOOLEAN, moved : BOOLEAN, verified : BOOLEAN,
        degraded : BOOLEAN, findings : BOOLEAN, outcome : Outcome \cup {None, "throws"}]

\* The policy it names tells whether the containment was verified.
Recorded == [outcome : Outcome, decision : Decision, mode : Mode \cup {None},
             verified : BOOLEAN]

\* The validators let no other trust decision pass.
ASSUME DemandAssumption ==
    \A d \in Demand : /\ d.decision \in Decision
                       /\ d.policy.requireDestinationVerification \in BOOLEAN

ASSUME NoneAssumption ==
    /\ None \notin Mode /\ None \notin Outcome \cup {"throws"}
    /\ None \notin Artifact
    /\ None \notin Job
    /\ None \notin Recorded

TypeOK ==
    /\ store \in [Place -> Artifact \cup {None}]
    /\ locks \subseteq Operation
    /\ results \in [Operation -> Recorded \cup {None}]
    /\ pc \in [Request -> {"idle", "step", "unlock", "verify", "record", "done"}]
    /\ job \in [Request -> Job \cup {None}]
    /\ \A r \in Request : pc[r] = "idle" <=> job[r] = None

Init ==
    /\ store = [p \in Place |-> IF p = Source THEN [activatable |-> TRUE, sealed |-> FALSE]
                                ELSE None]
    /\ locks = {}
    /\ results = [o \in Operation |-> None]
    /\ pc = [r \in Request |-> "idle"]
    /\ job = [r \in Request |-> None]

-----------------------------------------------------------------------------
goes(r, where, j) ==
    /\ pc' = [pc EXCEPT ![r] = where]
    /\ job' = [job EXCEPT ![r] = j]

\* The answer to an operation that has a recorded result: the same outcome to
\* the same inputs, a refusal to others.
recordedAnswer(o, decision) ==
    IF results[o].decision = decision THEN results[o].outcome ELSE "invalid-request"

\* quarantine() up to its first await after findByOperationId.  A mode that the
\* policy does not allow, or a path with a bad prefix, is answered and not recorded.
quarantine(r) ==
    /\ pc[r] = "idle"
    /\ \E o \in Operation, d \in Demand :
           LET need == evaluateQuarantinePolicy(d.decision, d.policy)
               mode == IF need = "required" THEN resolveQuarantineMode(d.policy) ELSE None
               j(m, outcome) ==
                   [operation |-> o, demand |-> d, mode |-> m,
                    step |-> 1, holds |-> FALSE, moved |-> FALSE, verified |-> FALSE,
                    degraded |-> FALSE, findings |-> FALSE, outcome |-> outcome]
           IN  \/ /\ results[o] # None
                  /\ goes(r, "done", j(None, recordedAnswer(o, d.decision)))
               \/ /\ results[o] = None
                  /\ \/ need = "not-required" /\ goes(r, "record", j(None, "not-required"))
                     \/ need = "policy-conflict" /\ goes(r, "done", j(None, "policy-conflict"))
                     \/ need = "required" /\ goes(r, "done", j(None, "containment-failed"))
                     \/ need = "required" /\ mode # None /\ goes(r, "step", j(mode, None))
    /\ UNCHANGED <<store, locks, results>>

-----------------------------------------------------------------------------
(* After the steps.                                                         *)

finalOutcome(j) ==
    IF j.mode = "manual-containment" THEN "manual-intervention-required"
    ELSE IF j.degraded THEN "quarantined-degraded"
    ELSE "quarantined"

\* A degraded containment that the policy forbids is answered and not recorded.
concludes(r, j) ==
    IF j.degraded /\ j.mode # "manual-containment" /\ ~j.demand.policy.allowDegradedContainment
    THEN goes(r, "done", [j EXCEPT !.outcome = "containment-failed"])
    ELSE goes(r, "record", [j EXCEPT !.outcome = finalOutcome(j)])

afterSteps(r, j) ==
    IF j.demand.policy.requireDestinationVerification /\ checksOf(j.mode) # <<>>
    THEN goes(r, "verify", [j EXCEPT !.step = 1])
    ELSE concludes(r, j)

stepDone(r, j) ==
    IF j.step < Len(stepsOf(j.mode)) THEN goes(r, "step", [j EXCEPT !.step = @ + 1])
    ELSE IF j.holds THEN goes(r, "unlock", j)
    ELSE afterSteps(r, j)

-----------------------------------------------------------------------------
(* The steps.                                                               *)

destination(r) == resolveQuarantineLocation(job[r].operation)

at(r, kind) ==
    /\ pc[r] = "step"
    /\ stepsOf(job[r].mode)[job[r].step] = kind

\* Mutant: the lock is taken from whoever holds it.
acquireAnyLock(r) ==
    /\ at(r, "acquire-lock")
    /\ locks' = locks \cup {job[r].operation}
    /\ stepDone(r, [job[r] EXCEPT !.holds = TRUE])
    /\ UNCHANGED <<store, results>>

\* The key of the lock is the operation, not the artifact.
acquireLock(r) ==
    /\ at(r, "acquire-lock")
    /\ job[r].operation \notin locks
    /\ locks' = locks \cup {job[r].operation}
    /\ stepDone(r, [job[r] EXCEPT !.holds = TRUE])
    /\ UNCHANGED <<store, results>>

validateSource(r) ==
    /\ at(r, "validate-source")
    /\ store[Source] # None
    /\ stepDone(r, job[r])
    /\ UNCHANGED <<store, locks, results>>

sealSource(r) ==
    /\ at(r, "seal-source")
    /\ store[Source] # None
    /\ store' = [store EXCEPT ![Source].sealed = TRUE]
    /\ stepDone(r, job[r])
    /\ UNCHANGED <<locks, results>>

createNamespace(r) ==
    /\ at(r, "create-namespace")
    /\ stepDone(r, job[r])
    /\ UNCHANGED <<store, locks, results>>

copyArtifact(r) ==
    /\ at(r, "copy-artifact")
    /\ store[Source] # None
    /\ store' = [store EXCEPT ![destination(r)] = store[Source]]
    /\ stepDone(r, job[r])
    /\ UNCHANGED <<locks, results>>

moveArtifact(r) ==
    /\ at(r, "move-artifact")
    /\ store[Source] # None
    /\ store' = [store EXCEPT ![destination(r)] = store[Source], ![Source] = None]
    /\ stepDone(r, [job[r] EXCEPT !.moved = TRUE])
    /\ UNCHANGED <<locks, results>>

\* removeActivationReference, of the destination and of the source.
deactivate(r, place) ==
    /\ store[place] # None
    /\ store' = [store EXCEPT ![place].activatable = FALSE]
    /\ stepDone(r, job[r])
    /\ UNCHANGED <<locks, results>>

deactivateDestination(r) ==
    at(r, "deactivate-destination") /\ deactivate(r, destination(r))

removeActivationReference(r) ==
    at(r, "remove-activation-reference") /\ deactivate(r, Source)

\* The plan of every mode has a destination, those that move nothing included.
verifyDestination(r) ==
    /\ at(r, "verify-destination")
    /\ store[destination(r)] # None
    /\ stepDone(r, [job[r] EXCEPT !.verified = TRUE])
    /\ UNCHANGED <<store, locks, results>>

releaseLock(r) ==
    /\ at(r, "release-lock")
    /\ locks' = locks \ {job[r].operation}
    /\ stepDone(r, [job[r] EXCEPT !.holds = FALSE])
    /\ UNCHANGED <<store, results>>

-----------------------------------------------------------------------------
(* Steps that are refused.                                                  *)

\* The call cannot succeed on what it finds.
impossible(r) ==
    \/ at(r, "acquire-lock") /\ job[r].operation \in locks
    \/ /\ \E kind \in {"validate-source", "seal-source", "copy-artifact", "move-artifact",
                       "remove-activation-reference"} : at(r, kind)
       /\ store[Source] = None
    \/ /\ at(r, "verify-destination") \/ at(r, "deactivate-destination")
       /\ store[destination(r)] = None

\* Mutant: an artifact that was moved and not found again is a plain failure.
failurePlain(j) == "containment-failed"

failure(j) ==
    IF j.moved /\ ~j.verified THEN "verification-failed" ELSE "containment-failed"

\* Mutant: a step that is refused is tried again until it is done.
requiredStepRetried(r) ==
    /\ pc[r] = "step" /\ ~at(r, "release-lock")
    /\ impossible(r) \/ PortsFail
    /\ goes(r, "step", job[r])
    /\ UNCHANGED <<store, locks, results>>

requiredStepFails(r) ==
    /\ pc[r] = "step" /\ ~at(r, "release-lock")
    /\ impossible(r) \/ PortsFail
    /\ goes(r, IF job[r].holds THEN "unlock" ELSE "record",
            [job[r] EXCEPT !.outcome = failure(job[r])])
    /\ UNCHANGED <<store, locks, results>>

\* release-lock is the one step that is not required.
releaseFails(r) ==
    /\ at(r, "release-lock") /\ PortsFail
    /\ stepDone(r, [job[r] EXCEPT !.degraded = TRUE])
    /\ UNCHANGED <<store, locks, results>>

\* The lock that is still held after the steps or a failure; what release()
\* throws is swallowed here.
unlock(r) ==
    /\ pc[r] = "unlock"
    /\ \E released \in {TRUE} \cup {~PortsFail} :
           LET j == [job[r] EXCEPT !.holds = ~released]
           IN  /\ locks' = IF released THEN locks \ {j.operation} ELSE locks
               /\ IF j.outcome # None THEN goes(r, "record", j) ELSE afterSteps(r, j)
    /\ UNCHANGED <<store, results>>

-----------------------------------------------------------------------------
(* Verification and the record.                                             *)

checking(r, kind) ==
    /\ pc[r] = "verify"
    /\ checksOf(job[r].mode)[job[r].step] = kind

\* `skipped` more calls are not made.
checkDone(r, finding, skipped) ==
    LET j == [job[r] EXCEPT !.findings = @ \/ finding, !.step = @ + 1 + skipped]
    IN  /\ IF j.step <= Len(checksOf(j.mode)) THEN goes(r, "verify", j)
           ELSE IF j.findings THEN goes(r, "record", [j EXCEPT !.outcome = "verification-failed"])
           ELSE concludes(r, [j EXCEPT !.step = 1])
        /\ UNCHANGED <<store, locks, results>>

checkDestination(r) ==
    /\ checking(r, "destination")
    /\ LET entry == store[destination(r)]
       IN  IF entry = None THEN checkDone(r, TRUE, 1)
           ELSE checkDone(r, entry.activatable, 0)

checkIdentity(r) ==
    /\ checking(r, "identity")
    /\ \/ checkDone(r, store[destination(r)].activatable, 0)
       \/ PortsFail /\ checkDone(r, TRUE, 0)

checkSource(r) ==
    LET entry == store[Source]
    IN  \/ /\ checking(r, "source-inactive")
           /\ checkDone(r, entry # None /\ entry.activatable, 0)
        \/ /\ checking(r, "source-sealed")
           /\ checkDone(r, entry # None /\ ~entry.sealed, 0)

\* stat() or recordResult() throws, and quarantine() with it.
throws(r) ==
    /\ PortsFail
    /\ pc[r] = "record" \/ (pc[r] = "verify" /\ ~checking(r, "identity"))
    /\ goes(r, "done", [job[r] EXCEPT !.outcome = "throws"])
    /\ UNCHANGED <<store, locks, results>>

recordResult(r) ==
    /\ pc[r] = "record"
    /\ results' = [results EXCEPT ![job[r].operation] =
                       [outcome |-> job[r].outcome, decision |-> job[r].demand.decision,
                        mode |-> job[r].mode,
                        verified |-> job[r].demand.policy.requireDestinationVerification]]
    /\ goes(r, "done", job[r])
    /\ UNCHANGED <<store, locks>>

-----------------------------------------------------------------------------
runStep(r) ==
    \/ acquireLock(r) \/ validateSource(r) \/ sealSource(r) \/ createNamespace(r)
    \/ copyArtifact(r) \/ moveArtifact(r) \/ deactivateDestination(r) \/ verifyDestination(r)
    \/ removeActivationReference(r) \/ releaseLock(r)
    \/ requiredStepFails(r) \/ releaseFails(r) \/ unlock(r)

verifyAndRecord(r) ==
    checkDestination(r) \/ checkIdentity(r) \/ checkSource(r) \/ throws(r) \/ recordResult(r)

Next == \E r \in Request : quarantine(r) \/ runStep(r) \/ verifyAndRecord(r)

Spec == Init /\ [][Next]_vars

\* Every port answers, be it with a refusal; nobody has to ask.
FairSpec == Spec /\ \A r \in Request : WF_vars(runStep(r) \/ verifyAndRecord(r))

-----------------------------------------------------------------------------
\* No other operation's name ends in the same path.
hasOwnDestination(o) ==
    \A p \in Operation \ {o} : resolveQuarantineLocation(p) # resolveQuarantineLocation(o)

quarantined(o) ==
    results[o] # None /\ results[o].outcome \in {"quarantined", "quarantined-degraded"}

\* A recorded quarantine means what it says, and goes on meaning it while other
\* requests copy, move and deactivate the same artifact, into the same place or
\* into others: what was put away is sealed, what was moved away is gone, and
\* what stays at the source is sealed or cannot be activated, as the mode
\* promises.  What was moved away cannot be activated; nor can a copy, if its
\* place is nobody else's or the containment was verified.
QuarantinedIsContained ==
    \A o \in Operation : quarantined(o) =>
        LET mode == results[o].mode
            entry == store[resolveQuarantineLocation(o)]
        IN  /\ mode \in {"isolate", "copy-and-seal"} => entry # None /\ entry.sealed
            /\ \/ mode = "isolate"
               \/ mode = "copy-and-seal" /\ (hasOwnDestination(o) \/ results[o].verified)
               => ~entry.activatable
            /\ mode = "isolate" => store[Source] = None
            /\ mode \in {"copy-and-seal", "deny-activation"} =>
                   store[Source] = None \/ ~store[Source].activatable
            /\ mode = "seal" => store[Source] = None \/ store[Source].sealed

\* What does not hold: "quarantine destination must never be activatable"
\* (L-9J-1013).  Two operations whose names end in one path hold different locks:
\* one copies the artifact, still active, over the other's deactivated copy, and
\* the other records a quarantine; it stays untrue if the first is then refused
\* its own deactivation.  Without a verification nobody looks again.
DestinationsAreInactive ==
    \A o \in Operation :
        quarantined(o) /\ results[o].mode \in {"isolate", "copy-and-seal"} =>
            ~store[resolveQuarantineLocation(o)].activatable

\* Whoever reads "containment-failed" may take it that this request left the
\* artifact where it was: a move that could not be confirmed is told as
\* "verification-failed", and the only other move that fails is one whose
\* lock could not be given back.
FailuresTellTheMove ==
    \A r \in Request : pc[r] = "done" /\ job[r].moved =>
        /\ job[r].outcome = "containment-failed" => job[r].verified /\ job[r].degraded
        /\ ~job[r].verified => job[r].outcome \in {"verification-failed", "throws"}

\* A lock has one holder, whoever fails where, and a request that is over has
\* given its lock back unless the lock refused twice or it failed before.
LocksHaveOneHolder ==
    /\ \A o \in Operation : o \in locks <=>
           \E r \in Request : job[r] # None /\ job[r].operation = o /\ job[r].holds
    /\ \A r, s \in Request :
           /\ job[r] # None /\ job[r].holds
           /\ job[s] # None /\ job[s].holds
           /\ job[r].operation = job[s].operation
           => r = s
    /\ \A r \in Request : pc[r] = "done" /\ job[r].holds =>
           job[r].degraded \/ job[r].outcome \notin {"quarantined", "not-required"}

\* Every request is answered, even where an earlier one could not give its
\* lock back.
EveryRequestIsAnswered ==
    \A r \in Request : pc[r] # "idle" ~> pc[r] = "done"

\* What the tests of the executor say of the modes: a containment that nobody
\* disturbs ends in quarantine, whichever mode the policy asks for.
UndisturbedContainmentSucceeds ==
    \A r \in Request :
        /\ pc[r] = "done" /\ job[r].mode \in Mode \ {"manual-containment"}
        /\ \A s \in Request \ {r} : pc[s] = "idle"
        /\ ~PortsFail
        => job[r].outcome = "quarantined"
=============================================================================
