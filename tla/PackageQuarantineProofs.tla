---------------------- MODULE PackageQuarantineProofs ----------------------
(***************************************************************************)
(* Proofs about PackageQuarantine, for any requests, operations and        *)
(* policies, whether or not storage, lock and records refuse calls.        *)
(***************************************************************************)
EXTENDS PackageQuarantine, SequenceTheorems, TLAPS

-----------------------------------------------------------------------------
(* The inductive invariant.                                                 *)

\* How many steps a mode has, and how many calls its verification makes.
lastStep(m) == Len(stepsOf(m))
lastCheck(m) == Len(checksOf(m))

\* What the steps of a request that is under way have done so far.
Under(j) ==
    /\ j.mode \in Mode
    /\ j.step \in 1 .. lastStep(j.mode)
    /\ j.outcome = None /\ ~ j.degraded
    /\ j.holds <=> j.step > 1
    /\ j.moved <=> j.mode = "isolate" /\ j.step > 5
    /\ j.mode = "isolate" => (j.verified <=> j.step > 7)

Failed == {"containment-failed", "verification-failed"}

\* A move that was made is known of, and a failure does not hide it.
MoveTold(j) ==
    j.moved => \/ j.outcome \in {"verification-failed", "throws"}
               \/ j.verified /\ (j.outcome = "containment-failed" => j.degraded)

\* Where a request may be, and with which locals.
Control(p, j) ==
    /\ p = "step" => Under(j)
    /\ p = "unlock" => /\ j.mode \in Mode /\ j.holds
                       /\ j.outcome \in {None} \cup Failed
                       /\ j.outcome = None => j.degraded
                       /\ MoveTold(j)
    /\ p = "verify" => /\ j.mode \in Mode /\ j.outcome = None
                       /\ j.step <= lastCheck(j.mode)
                       /\ j.holds => j.degraded
                       /\ MoveTold(j)
    /\ p \in {"record", "done"} =>
           /\ j.outcome # None /\ (p = "record" => j.outcome # "throws")
           /\ j.holds => j.degraded \/ j.outcome \in Failed \cup {"throws"}
           /\ MoveTold(j)

SourceSealed(st) == st[Source] = None \/ st[Source].sealed

SourceInactive(st) == st[Source] = None \/ ~ st[Source].activatable

PutAway(st, o) ==
    st[resolveQuarantineLocation(o)] # None /\ st[resolveQuarantineLocation(o)].sealed

Inactive(st, o) == ~ st[resolveQuarantineLocation(o)].activatable

\* Containment in the making.
Partial(j, st) ==
    /\ j.mode \in {"isolate", "copy-and-seal", "seal"} /\ j.step > 3 => SourceSealed(st)
    /\ j.mode \in {"isolate", "copy-and-seal"} /\ j.step > 5 => PutAway(st, j.operation)
    /\ j.mode = "isolate" /\ j.step > 6 => Inactive(st, j.operation)
    /\ j.mode = "copy-and-seal" /\ j.step > 6 /\ hasOwnDestination(j.operation) =>
           Inactive(st, j.operation)
    /\ j.mode = "isolate" /\ j.step > 5 => st[Source] = None
    /\ j.mode = "copy-and-seal" /\ j.step > 8 => SourceInactive(st)
    /\ j.mode = "deny-activation" /\ j.step > 3 => SourceInactive(st)

\* Containment as it stays: what lies at the source may be put away once more.
Safe(mode, o, st) ==
    /\ mode \in {"isolate", "copy-and-seal"} =>
           PutAway(st, o) /\ SourceSealed(st) /\ SourceInactive(st)
    /\ mode = "isolate" => Inactive(st, o) /\ st[Source] = None
    /\ mode = "seal" => SourceSealed(st)
    /\ mode = "deny-activation" => SourceInactive(st)

Quarantined == {"quarantined", "quarantined-degraded"}

\* A copy is inactive where nobody else puts one, and where somebody looked.
LookedAfter(p, j) ==
    /\ j.mode = "copy-and-seal"
    /\ \/ hasOwnDestination(j.operation)
       \/ p = "verify" /\ j.step > 1 /\ ~ j.findings
       \/ p = "record" /\ j.demand.policy.requireDestinationVerification

Contained(p, j, st) ==
    /\ p = "step" => Partial(j, st)
    /\ \/ p = "unlock" /\ j.outcome = None
       \/ p = "verify"
       \/ p = "record" /\ j.outcome \in Quarantined
       => Safe(j.mode, j.operation, st) /\ (LookedAfter(p, j) => Inactive(st, j.operation))

LockInv ==
    /\ \A o \in Operation : o \in locks =>
           \E r \in Request : job[r] # None /\ job[r].operation = o /\ job[r].holds
    /\ \A r \in Request : job[r] # None /\ job[r].holds => job[r].operation \in locks
    /\ \A r, s \in Request :
           /\ job[r] # None /\ job[r].holds
           /\ job[s] # None /\ job[s].holds
           /\ job[r].operation = job[s].operation
           => r = s

RecordsInv ==
    \A o \in Operation :
        results[o] # None /\ results[o].outcome \in Quarantined =>
            /\ Safe(results[o].mode, o, store)
            /\ /\ results[o].mode = "copy-and-seal"
               /\ hasOwnDestination(o) \/ results[o].verified
               => Inactive(store, o)

Inductive ==
    /\ TypeOK
    /\ \A r \in Request : pc[r] # "idle" =>
           Control(pc[r], job[r]) /\ Contained(pc[r], job[r], store)
    /\ LockInv
    /\ RecordsInv

-----------------------------------------------------------------------------
(* The plan of each mode.                                                   *)

\* The plan of each mode, step by step.
LEMMA IsolatePlan ==
    /\ Len(stepsOf("isolate")) = 8
    /\ stepsOf("isolate")[1] = "acquire-lock"
    /\ stepsOf("isolate")[2] = "validate-source"
    /\ stepsOf("isolate")[3] = "seal-source"
    /\ stepsOf("isolate")[4] = "create-namespace"
    /\ stepsOf("isolate")[5] = "move-artifact"
    /\ stepsOf("isolate")[6] = "deactivate-destination"
    /\ stepsOf("isolate")[7] = "verify-destination"
    /\ stepsOf("isolate")[8] = "release-lock"
<1>1. stepsOf("isolate") = <<"acquire-lock", "validate-source">>
          \o <<"seal-source", "create-namespace", "move-artifact",
               "deactivate-destination", "verify-destination">>
          \o <<"release-lock">>
    BY Zenon DEF stepsOf, containment
<1> QED
    BY <1>1

LEMMA CopyAndSealPlan ==
    /\ Len(stepsOf("copy-and-seal")) = 9
    /\ stepsOf("copy-and-seal")[1] = "acquire-lock"
    /\ stepsOf("copy-and-seal")[2] = "validate-source"
    /\ stepsOf("copy-and-seal")[3] = "seal-source"
    /\ stepsOf("copy-and-seal")[4] = "create-namespace"
    /\ stepsOf("copy-and-seal")[5] = "copy-artifact"
    /\ stepsOf("copy-and-seal")[6] = "deactivate-destination"
    /\ stepsOf("copy-and-seal")[7] = "verify-destination"
    /\ stepsOf("copy-and-seal")[8] = "remove-activation-reference"
    /\ stepsOf("copy-and-seal")[9] = "release-lock"
<1>1. stepsOf("copy-and-seal") = <<"acquire-lock", "validate-source">>
          \o <<"seal-source", "create-namespace", "copy-artifact",
               "deactivate-destination", "verify-destination",
               "remove-activation-reference">>
          \o <<"release-lock">>
    BY Zenon DEF stepsOf, containment
<1> QED
    BY <1>1

LEMMA SealPlan ==
    /\ Len(stepsOf("seal")) = 5
    /\ stepsOf("seal")[1] = "acquire-lock"
    /\ stepsOf("seal")[2] = "validate-source"
    /\ stepsOf("seal")[3] = "seal-source"
    /\ stepsOf("seal")[4] = "verify-destination"
    /\ stepsOf("seal")[5] = "release-lock"
<1>1. stepsOf("seal") = <<"acquire-lock", "validate-source">>
          \o <<"seal-source", "verify-destination">>
          \o <<"release-lock">>
    BY Zenon DEF stepsOf, containment
<1> QED
    BY <1>1

LEMMA DenyActivationPlan ==
    /\ Len(stepsOf("deny-activation")) = 5
    /\ stepsOf("deny-activation")[1] = "acquire-lock"
    /\ stepsOf("deny-activation")[2] = "validate-source"
    /\ stepsOf("deny-activation")[3] = "remove-activation-reference"
    /\ stepsOf("deny-activation")[4] = "verify-destination"
    /\ stepsOf("deny-activation")[5] = "release-lock"
<1>1. stepsOf("deny-activation") = <<"acquire-lock", "validate-source">>
          \o <<"remove-activation-reference", "verify-destination">>
          \o <<"release-lock">>
    BY Zenon DEF stepsOf, containment
<1> QED
    BY <1>1

LEMMA ManualPlan ==
    /\ Len(stepsOf("manual-containment")) = 3
    /\ stepsOf("manual-containment")[1] = "acquire-lock"
    /\ stepsOf("manual-containment")[2] = "validate-source"
    /\ stepsOf("manual-containment")[3] = "release-lock"
<1>1. stepsOf("manual-containment") = <<"acquire-lock", "validate-source">>
          \o << >>
          \o <<"release-lock">>
    BY Zenon DEF stepsOf, containment
<1> QED
    BY <1>1

\* The number of steps of each mode.
LEMMA PlanLength ==
    ASSUME NEW m \in Mode
    PROVE  /\ m = "isolate" => lastStep(m) = 8
           /\ m = "copy-and-seal" => lastStep(m) = 9
           /\ m \in {"seal", "deny-activation"} => lastStep(m) = 5
           /\ m = "manual-containment" => lastStep(m) = 3
           /\ lastStep(m) \in 3 .. 9
BY IsolatePlan, CopyAndSealPlan, SealPlan, DenyActivationPlan, ManualPlan
DEF Mode, lastStep

\* What the kind of a step says of the mode and of the place in its plan.
LEMMA Kinds ==
    ASSUME NEW m \in Mode, NEW i \in 1 .. lastStep(m), NEW kind, stepsOf(m)[i] = kind
    PROVE  /\ kind = "acquire-lock" <=> i = 1
           /\ kind = "validate-source" <=> i = 2
           /\ kind = "release-lock" <=> i = lastStep(m)
           /\ kind = "seal-source" => i = 3 /\ m \in {"isolate", "copy-and-seal", "seal"}
           /\ kind = "create-namespace" => i = 4 /\ m \in {"isolate", "copy-and-seal"}
           /\ kind = "copy-artifact" => i = 5 /\ m = "copy-and-seal"
           /\ kind = "move-artifact" => i = 5 /\ m = "isolate"
           /\ kind = "deactivate-destination" => i = 6 /\ m \in {"isolate", "copy-and-seal"}
           /\ kind = "verify-destination" =>
                  \/ i = 7 /\ m \in {"isolate", "copy-and-seal"}
                  \/ i = 4 /\ m \in {"seal", "deny-activation"}
           /\ kind = "remove-activation-reference" =>
                  \/ i = 8 /\ m = "copy-and-seal"
                  \/ i = 3 /\ m = "deny-activation"
<1>1. CASE m = "isolate"
    <2>1. i = 1 \/ i = 2 \/ i = 3 \/ i = 4 \/ i = 5 \/ i = 6 \/ i = 7 \/ i = 8
        BY <1>1, IsolatePlan DEF lastStep
    <2> QED
        BY <1>1, <2>1, IsolatePlan DEF lastStep
<1>2. CASE m = "copy-and-seal"
    <2>1. i = 1 \/ i = 2 \/ i = 3 \/ i = 4 \/ i = 5 \/ i = 6 \/ i = 7 \/ i = 8 \/ i = 9
        BY <1>2, CopyAndSealPlan DEF lastStep
    <2> QED
        BY <1>2, <2>1, CopyAndSealPlan DEF lastStep
<1>3. CASE m = "seal"
    <2>1. i = 1 \/ i = 2 \/ i = 3 \/ i = 4 \/ i = 5
        BY <1>3, SealPlan DEF lastStep
    <2> QED
        BY <1>3, <2>1, SealPlan DEF lastStep
<1>4. CASE m = "deny-activation"
    <2>1. i = 1 \/ i = 2 \/ i = 3 \/ i = 4 \/ i = 5
        BY <1>4, DenyActivationPlan DEF lastStep
    <2> QED
        BY <1>4, <2>1, DenyActivationPlan DEF lastStep
<1>5. CASE m = "manual-containment"
    <2>1. i = 1 \/ i = 2 \/ i = 3
        BY <1>5, ManualPlan DEF lastStep
    <2> QED
        BY <1>5, <2>1, ManualPlan DEF lastStep
<1> QED
    BY <1>1, <1>2, <1>3, <1>4, <1>5 DEF Mode

\* What the calls of verifyContainment are about.
LEMMA ChecksPlan ==
    ASSUME NEW m \in Mode
    PROVE  /\ lastCheck(m) \in 0 .. 3
           /\ checksOf(m) # << >> => lastCheck(m) > 0
           /\ \A i \in 1 .. lastCheck(m) :
                  checksOf(m)[i] \in {"destination", "identity"} =>
                      m \in {"isolate", "copy-and-seal"}
           /\ checksOf("copy-and-seal")[1] = "destination"
<1>1. /\ checksOf("isolate") = <<"destination", "identity">>
      /\ checksOf("copy-and-seal") = <<"destination", "identity", "source-inactive">>
      /\ checksOf("seal") = <<"source-sealed">>
      /\ checksOf("deny-activation") = <<"source-inactive">>
      /\ checksOf("manual-containment") = << >>
    BY Zenon DEF checksOf
<1>1a. checksOf("copy-and-seal")[1] = "destination"
    BY <1>1
<1>2. CASE m \in {"isolate", "copy-and-seal"}
    BY <1>1, <1>2 DEF lastCheck
<1>3. CASE m = "seal"
    <2>1. Len(checksOf(m)) = 1 /\ checksOf(m)[1] = "source-sealed"
        BY <1>1, <1>3
    <2> QED
        BY <1>1a, <2>1 DEF lastCheck
<1>4. CASE m = "deny-activation"
    <2>1. Len(checksOf(m)) = 1 /\ checksOf(m)[1] = "source-inactive"
        BY <1>1, <1>4
    <2> QED
        BY <1>1a, <2>1 DEF lastCheck
<1>5. CASE m = "manual-containment"
    BY <1>1, <1>5 DEF lastCheck
<1> QED
    BY <1>2, <1>3, <1>4, <1>5, <1>1a DEF Mode

-----------------------------------------------------------------------------
(* The storage.                                                             *)

Storage == [Place -> Artifact \cup {None}]

\* What a call of a request with this destination does to the storage.
Touched(place, st, st2) ==
    \/ st2 = st
    \/ st[Source] # None /\ st2 = [st EXCEPT ![Source].sealed = TRUE]
    \/ st[Source] # None /\ st2 = [st EXCEPT ![place] = st[Source]]
    \/ st[Source] # None /\ st2 = [st EXCEPT ![place] = st[Source], ![Source] = None]
    \/ \E p \in {place, Source} : st[p] # None /\ st2 = [st EXCEPT ![p].activatable = FALSE]

\* A call changes the source and its destination only, never unseals what lies
\* there, and never makes it activatable but by a copy of the source.
LEMMA TouchedStorage ==
    ASSUME NEW l \in Location, NEW st \in Storage, NEW st2, Touched(l, st, st2)
    PROVE  /\ st2 \in Storage
           /\ \A p \in Location \ {l} : st2[p] = st[p]
           /\ st[Source] = None => st2[Source] = None
           /\ SourceSealed(st) => SourceSealed(st2)
           /\ SourceInactive(st) => SourceInactive(st2)
           /\ st[l] # None => st2[l] # None
           /\ st[l] # None /\ st[l].sealed /\ SourceSealed(st) => st2[l].sealed
           /\ st[l] # None /\ ~ st[l].activatable /\ SourceInactive(st) => ~ st2[l].activatable
<1> USE PlacesDiffer, NoneAssumption DEF Storage, Place, Artifact, SourceSealed, SourceInactive
<1>1. CASE st2 = st
    BY <1>1
<1>2. CASE st[Source] # None /\ st2 = [st EXCEPT ![Source].sealed = TRUE]
    <2>1. [st[Source] EXCEPT !.sealed = TRUE] \in Artifact
        BY <1>2
    <2> QED
        BY <1>2, <2>1
<1>3. CASE st[Source] # None /\ st2 = [st EXCEPT ![l] = st[Source]]
    BY <1>3
<1>4. CASE st[Source] # None /\ st2 = [st EXCEPT ![l] = st[Source], ![Source] = None]
    BY <1>4
<1>5. ASSUME NEW p \in {l, Source}, st[p] # None,
             st2 = [st EXCEPT ![p].activatable = FALSE]
      PROVE  /\ st2 \in Storage
             /\ \A q \in Location \ {l} : st2[q] = st[q]
             /\ st[Source] = None => st2[Source] = None
             /\ SourceSealed(st) => SourceSealed(st2)
             /\ SourceInactive(st) => SourceInactive(st2)
             /\ st[l] # None => st2[l] # None
             /\ st[l] # None /\ st[l].sealed /\ SourceSealed(st) => st2[l].sealed
             /\ st[l] # None /\ ~ st[l].activatable /\ SourceInactive(st) => ~ st2[l].activatable
    <2>1. [st[p] EXCEPT !.activatable = FALSE] \in Artifact
        BY <1>5
    <2> QED
        BY <1>5, <2>1
<1> QED
    BY <1>1, <1>2, <1>3, <1>4, <1>5 DEF Touched

\* The path of an operation.
LEMMA Located ==
    ASSUME NEW o \in Operation
    PROVE  resolveQuarantineLocation(o) \in Location
BY LocationAssumption DEF resolveQuarantineLocation

\* What lies at the destination of an operation, whoever else goes there.
LEMMA DestinationKept ==
    ASSUME NEW l \in Location, NEW st \in Storage, NEW st2, Touched(l, st, st2),
           NEW p \in Operation, PutAway(st, p), SourceSealed(st)
    PROVE  /\ PutAway(st2, p)
           /\ Inactive(st, p) /\ SourceInactive(st) => Inactive(st2, p)
           /\ Inactive(st, p) /\ resolveQuarantineLocation(p) # l => Inactive(st2, p)
<1>1. CASE resolveQuarantineLocation(p) = l
    BY <1>1, TouchedStorage DEF PutAway, Inactive
<1>2. CASE resolveQuarantineLocation(p) # l
    BY <1>2, TouchedStorage, Located DEF PutAway, Inactive
<1> QED
    BY <1>1, <1>2

\* What is contained stays contained, whoever goes on working on the artifact.
LEMMA SafeKept ==
    ASSUME NEW l \in Location, NEW st \in Storage, NEW st2, Touched(l, st, st2),
           NEW p \in Operation, NEW mode, Safe(mode, p, st)
    PROVE  /\ Safe(mode, p, st2)
           /\ mode = "copy-and-seal" /\ Inactive(st, p) => Inactive(st2, p)
BY TouchedStorage, DestinationKept DEF Safe

\* A request is not disturbed by one that holds the lock of another operation.
LEMMA PartialKept ==
    ASSUME NEW o \in Operation, NEW st \in Storage, NEW st2,
           Touched(resolveQuarantineLocation(o), st, st2),
           NEW j \in Job, j.operation # o \/ j.step <= 1, Partial(j, st)
    PROVE  Partial(j, st2)
<1> DEFINE l == resolveQuarantineLocation(o)
<1>1. j.operation \in Operation /\ j.step \in Nat /\ l \in Location
    BY Located DEF Job
<1>2. CASE j.step <= 1
    BY <1>1, <1>2 DEF Partial
<1>3. CASE j.operation # o
    <2>1. hasOwnDestination(j.operation) => resolveQuarantineLocation(j.operation) # l
        BY <1>3 DEF hasOwnDestination
    <2>2. /\ st[Source] = None => st2[Source] = None
          /\ SourceSealed(st) => SourceSealed(st2)
          /\ SourceInactive(st) => SourceInactive(st2)
        BY <1>1, TouchedStorage
    <2>3. PutAway(st, j.operation) /\ SourceSealed(st) =>
              /\ PutAway(st2, j.operation)
              /\ Inactive(st, j.operation) /\ SourceInactive(st) => Inactive(st2, j.operation)
              /\ Inactive(st, j.operation) /\ resolveQuarantineLocation(j.operation) # l =>
                     Inactive(st2, j.operation)
        BY <1>1, DestinationKept
    <2>4. st[Source] = None => SourceInactive(st)
        BY DEF SourceInactive
    <2> HIDE DEF l
    <2> QED
        BY <1>1, <2>1, <2>2, <2>3, <2>4 DEF Partial
<1> QED
    BY <1>2, <1>3

-----------------------------------------------------------------------------
(* One step of one request.                                                 *)

Stage == {"step", "unlock", "verify", "record", "done"}

\* What a step does to the lock: nothing, or take it, or give it back.
LockMoves(r, k) ==
    \/ /\ locks' = locks
       /\ job[r] # None => k.operation = job[r].operation /\ (k.holds <=> job[r].holds)
       /\ job[r] = None => ~ k.holds
    \/ /\ job[r] # None /\ k.operation = job[r].operation
       /\ k.operation \notin locks /\ locks' = locks \cup {k.operation} /\ k.holds
    \/ /\ job[r] # None /\ k.operation = job[r].operation
       /\ job[r].holds /\ locks' = locks \ {k.operation} /\ ~ k.holds

\* The storage is only worked on under the lock.
StoreMoves(r) ==
    \/ store' = store
    \/ /\ job[r] # None /\ job[r].holds
       /\ Touched(destination(r), store, store')

\* A result is recorded as the request has it.
ResultMoves(r) ==
    \/ results' = results
    \/ /\ pc[r] = "record" /\ store' = store
       /\ job[r].outcome \in Outcome /\ job[r].demand.decision \in Decision
       /\ results' = [results EXCEPT ![job[r].operation] =
                          [outcome |-> job[r].outcome, decision |-> job[r].demand.decision,
                           mode |-> job[r].mode,
                           verified |-> job[r].demand.policy.requireDestinationVerification]]

LEMMA LockKept ==
    ASSUME Inductive, NEW r \in Request, NEW k \in Job,
           job' = [job EXCEPT ![r] = k], LockMoves(r, k)
    PROVE  LockInv'
<1> USE NoneAssumption
<1>1. /\ job \in [Request -> Job \cup {None}] /\ locks \subseteq Operation /\ LockInv
      /\ job'[r] = k /\ k # None
      /\ \A s \in Request \ {r} : job'[s] = job[s]
      /\ k.operation \in Operation
    BY DEF Inductive, TypeOK, Job
<1>2. CASE /\ locks' = locks
           /\ job[r] # None => k.operation = job[r].operation /\ (k.holds <=> job[r].holds)
           /\ job[r] = None => ~ k.holds
    BY <1>1, <1>2 DEF LockInv
<1>3. CASE /\ job[r] # None /\ k.operation = job[r].operation
           /\ k.operation \notin locks /\ locks' = locks \cup {k.operation} /\ k.holds
    BY <1>1, <1>3 DEF LockInv
<1>4. CASE /\ job[r] # None /\ k.operation = job[r].operation
           /\ job[r].holds /\ locks' = locks \ {k.operation} /\ ~ k.holds
    BY <1>1, <1>4 DEF LockInv
<1> QED
    BY <1>2, <1>3, <1>4 DEF LockMoves

\* A request that moves as its stage demands leaves the others where they are.
LEMMA Preserved ==
    ASSUME Inductive, NEW r \in Request, NEW p \in Stage, NEW k \in Job, goes(r, p, k),
           Control(p, k), Contained(p, k, store'),
           LockMoves(r, k), StoreMoves(r), ResultMoves(r)
    PROVE  Inductive'
<1> USE NoneAssumption
<1>1. /\ store \in Storage /\ locks \subseteq Operation
      /\ results \in [Operation -> Recorded \cup {None}]
      /\ pc \in [Request -> {"idle"} \cup Stage]
      /\ job \in [Request -> Job \cup {None}]
      /\ \A s \in Request : pc[s] = "idle" <=> job[s] = None
    BY DEF Inductive, TypeOK, Storage, Stage
<1>2. /\ pc' = [pc EXCEPT ![r] = p] /\ job' = [job EXCEPT ![r] = k]
    BY DEF goes
<1>3. p # "idle" /\ k # None /\ k.operation \in Operation
    BY DEF Stage, Job
<1>3a. job[r] # None => job[r] \in Job /\ destination(r) \in Location
    BY <1>1, Located DEF Job, destination
<1>4. ASSUME NEW o \in Operation, NEW mode, Safe(mode, o, store)
      PROVE  /\ Safe(mode, o, store')
             /\ mode = "copy-and-seal" /\ Inactive(store, o) => Inactive(store', o)
    BY <1>3a, <1>1, <1>4, SafeKept DEF StoreMoves
<1>5. store' \in Storage
    BY <1>3a, <1>1, TouchedStorage DEF StoreMoves
<1>6. locks' \subseteq Operation
    BY <1>1, <1>3 DEF LockMoves
<1>7. results' \in [Operation -> Recorded \cup {None}]
    <2>1. CASE results' = results
        BY <1>1, <2>1
    <2>2. CASE results' # results
        <3>1. /\ pc[r] = "record" /\ job[r] # None
              /\ job[r].operation \in Operation
              /\ [outcome |-> job[r].outcome, decision |-> job[r].demand.decision,
                  mode |-> job[r].mode,
                  verified |-> job[r].demand.policy.requireDestinationVerification] \in Recorded
            BY <1>1, <2>2, DemandAssumption DEF ResultMoves, Job, Recorded
        <3> QED
            BY <1>1, <2>2, <3>1 DEF ResultMoves
    <2> QED
        BY <2>1, <2>2
<1>8. TypeOK'
    <2>1. \A s \in Request : pc'[s] = "idle" <=> job'[s] = None
        BY <1>1, <1>2, <1>3
    <2>2. pc' \in [Request -> {"idle"} \cup Stage] /\ job' \in [Request -> Job \cup {None}]
        BY <1>1, <1>2
    <2> QED
        BY <1>5, <1>6, <1>7, <2>1, <2>2 DEF TypeOK, Storage, Stage
<1>9. ASSUME NEW s \in Request, pc'[s] # "idle"
      PROVE  Control(pc'[s], job'[s]) /\ Contained(pc'[s], job'[s], store')
    <2>1. CASE s = r
        BY <1>1, <1>2, <2>1
    <2>2. CASE s # r
        <3>1. /\ pc'[s] = pc[s] /\ job'[s] = job[s] /\ job[s] \in Job
              /\ Control(pc[s], job[s]) /\ Contained(pc[s], job[s], store)
            BY <1>1, <1>2, <1>9, <2>2 DEF Inductive
        <3>2. ASSUME pc[s] = "step"
              PROVE  Partial(job[s], store')
            <4>1. Partial(job[s], store) /\ Under(job[s])
                BY <3>1, <3>2 DEF Contained, Control
            <4>2. CASE store' = store
                BY <4>1, <4>2
            <4>3. CASE /\ job[r] # None /\ job[r].holds
                       /\ Touched(destination(r), store, store')
                <5>1. job[r] \in Job /\ job[r].operation \in Operation
                    BY <1>1, <4>3 DEF Job
                <5>2. job[s].operation # job[r].operation \/ ~ job[s].holds
                    BY <1>1, <2>2, <3>1, <4>3 DEF Inductive, LockInv
                <5>3. job[s].operation # job[r].operation \/ job[s].step <= 1
                    BY <3>1, <4>1, <5>2 DEF Under, Job
                <5> QED
                    BY <1>1, <3>1, <4>1, <4>3, <5>1, <5>3, PartialKept DEF destination
            <4> QED
                BY <4>2, <4>3 DEF StoreMoves
        <3>3. job[s].operation \in Operation
            BY <3>1 DEF Job
        <3>4. LookedAfter(pc[s], job[s]) => job[s].mode = "copy-and-seal"
            BY DEF LookedAfter
        <3> QED
            BY <1>4, <3>1, <3>2, <3>3, <3>4 DEF Contained
    <2> QED
        BY <2>1, <2>2
<1>10. LockInv'
    BY <1>2, LockKept
<1>11. RecordsInv'
    <2>1. CASE results' = results
        BY <1>4, <2>1 DEF Inductive, RecordsInv
    <2>2. CASE results' # results
        <3>1. /\ pc[r] = "record" /\ store' = store
              /\ results' = [results EXCEPT ![job[r].operation] =
                                 [outcome |-> job[r].outcome,
                                  decision |-> job[r].demand.decision,
                                  mode |-> job[r].mode,
                                  verified |-> job[r].demand.policy.requireDestinationVerification]]
            BY <2>2 DEF ResultMoves
        <3>2. job[r] \in Job /\ Contained("record", job[r], store)
            BY <1>1, <3>1 DEF Inductive
        <3>3. job[r].outcome \in Quarantined =>
                  /\ Safe(job[r].mode, job[r].operation, store)
                  /\ /\ job[r].mode = "copy-and-seal"
                     /\ \/ hasOwnDestination(job[r].operation)
                        \/ job[r].demand.policy.requireDestinationVerification
                     => Inactive(store, job[r].operation)
            BY <3>2 DEF Contained, LookedAfter
        <3>4. job[r].operation \in Operation
            BY <3>2 DEF Job
        <3> QED
            BY <1>1, <3>1, <3>3, <3>4 DEF Inductive, RecordsInv
    <2> QED
        BY <2>1, <2>2
<1> QED
    BY <1>8, <1>9, <1>10, <1>11 DEF Inductive

-----------------------------------------------------------------------------
(* The steps.                                                               *)

\* What is known of a request whose plan is being carried out.
LEMMA Stepping ==
    ASSUME Inductive, NEW r \in Request, pc[r] = "step"
    PROVE  /\ job[r] \in Job /\ job[r] # None
           /\ Under(job[r]) /\ Partial(job[r], store)
           /\ store \in Storage
           /\ job[r].mode \in Mode /\ job[r].operation \in Operation
           /\ job[r].step \in 1 .. lastStep(job[r].mode)
           /\ lastStep(job[r].mode) \in 3 .. 9
<1>1. job[r] \in Job /\ job[r] # None /\ Under(job[r]) /\ Partial(job[r], store)
    BY NoneAssumption DEF Inductive, TypeOK, Control, Contained
<1>2. store \in Storage
    BY DEF Inductive, TypeOK, Storage
<1> QED
    BY <1>1, <1>2, PlanLength DEF Under, Job

\* The locals of a request one step on.
after(k) == [k EXCEPT !.step = @ + 1]

LEMMA After ==
    ASSUME NEW k \in Job, k.step < 9
    PROVE  /\ after(k) \in Job /\ after(k).step = k.step + 1
           /\ after(k).operation = k.operation /\ after(k).demand = k.demand
           /\ after(k).mode = k.mode /\ after(k).outcome = k.outcome
           /\ after(k).holds = k.holds /\ after(k).moved = k.moved
           /\ after(k).verified = k.verified /\ after(k).degraded = k.degraded
<1>1. k.step + 1 \in 1 .. 9
    BY DEF Job
<1> QED
    BY <1>1 DEF after, Job

\* A step that is not the last one of its plan.
LEMMA NextStep ==
    ASSUME Inductive, NEW r \in Request, pc[r] = "step",
           NEW k \in Job, stepDone(r, k),
           k.mode \in Mode, k.step < lastStep(k.mode),
           Under(after(k)), Partial(after(k), store'),
           LockMoves(r, k), StoreMoves(r), results' = results
    PROVE  Inductive'
<1>1. lastStep(k.mode) \in 3 .. 9 /\ k.step \in 1 .. 9
    BY PlanLength DEF Job
<1>2. goes(r, "step", after(k))
    BY DEF stepDone, after, lastStep
<1>3. k.step < 9
    BY <1>1
<1>4. /\ after(k) \in Job /\ after(k).operation = k.operation /\ after(k).holds = k.holds
    BY <1>3, After
<1>5. Control("step", after(k)) /\ Contained("step", after(k), store')
    BY DEF Control, Contained
<1>6. LockMoves(r, after(k)) /\ ResultMoves(r)
    BY <1>4 DEF LockMoves, ResultMoves
<1> QED
    BY <1>2, <1>4, <1>5, <1>6, Preserved DEF Stage

LEMMA StepAcquireLock ==
    ASSUME Inductive, NEW r \in Request, acquireLock(r)
    PROVE  Inductive'
<1> DEFINE j == job[r]
           k == [j EXCEPT !.holds = TRUE]
<1>1. pc[r] = "step" /\ stepsOf(j.mode)[j.step] = "acquire-lock"
    BY DEF acquireLock, at
<1>2. /\ j \in Job /\ j # None /\ Under(j) /\ j.mode \in Mode
      /\ j.step \in 1 .. lastStep(j.mode) /\ lastStep(j.mode) \in 3 .. 9
    BY <1>1, Stepping
<1>3. j.step = 1
    BY <1>1, <1>2, Kinds
<1>4. k \in Job /\ k.mode = j.mode /\ k.step = 1 /\ k.operation = j.operation /\ k.holds
    BY <1>2, <1>3 DEF Job
<1>5. /\ after(k).mode = j.mode /\ after(k).step = 2 /\ after(k).holds
      /\ after(k).outcome = j.outcome
      /\ after(k).degraded = j.degraded /\ after(k).moved = j.moved
      /\ after(k).verified = j.verified
    <2>1. /\ k.outcome = j.outcome /\ k.degraded = j.degraded /\ k.moved = j.moved
          /\ k.verified = j.verified
        BY <1>2 DEF Job
    <2> HIDE DEF k
    <2> QED
        BY <1>4, <2>1, After
<1>6. Under(after(k)) /\ Partial(after(k), store')
    BY <1>2, <1>3, <1>5 DEF Under, Partial
<1>7. LockMoves(r, k) /\ StoreMoves(r) /\ results' = results /\ stepDone(r, k)
    BY <1>2, <1>4 DEF acquireLock, LockMoves, StoreMoves
<1> HIDE DEF j, k
<1> QED
    BY <1>1, <1>2, <1>4, <1>6, <1>7, NextStep

\* Steps that leave the request's own locals alone.
LEMMA PlainStep ==
    ASSUME Inductive, NEW r \in Request, pc[r] = "step", stepDone(r, job[r]),
           job[r].step \in 2 .. lastStep(job[r].mode) - 1,
           job[r].mode = "isolate" => job[r].step \notin {5, 7},
           UNCHANGED <<locks, results>>, Touched(destination(r), store, store'),
           Partial(after(job[r]), store')
    PROVE  Inductive'
<1> DEFINE j == job[r]
<1>1. /\ j \in Job /\ j # None /\ Under(j) /\ j.mode \in Mode
      /\ lastStep(j.mode) \in 3 .. 9
    BY Stepping
<1>2. /\ after(j).mode = j.mode /\ after(j).step = j.step + 1 /\ after(j).holds = j.holds
      /\ after(j).outcome = j.outcome /\ after(j).operation = j.operation
      /\ after(j).degraded = j.degraded /\ after(j).moved = j.moved
      /\ after(j).verified = j.verified
    BY <1>1, After
<1>3. Under(after(j))
    BY <1>1, <1>2 DEF Under
<1>4. LockMoves(r, j) /\ StoreMoves(r)
    BY <1>1 DEF LockMoves, StoreMoves, Under
<1> QED
    BY <1>1, <1>3, <1>4, NextStep

LEMMA StepValidateSource ==
    ASSUME Inductive, NEW r \in Request, validateSource(r)
    PROVE  Inductive'
<1> DEFINE j == job[r]
<1>1. /\ pc[r] = "step" /\ stepsOf(j.mode)[j.step] = "validate-source"
      /\ stepDone(r, j) /\ UNCHANGED <<store, locks, results>>
    BY DEF validateSource, at
<1>2. /\ j \in Job /\ j.mode \in Mode /\ Under(j)
      /\ j.step \in 1 .. lastStep(j.mode) /\ lastStep(j.mode) \in 3 .. 9
    BY <1>1, Stepping
<1>3. j.step = 2 /\ after(j).step = 3
    BY <1>1, <1>2, Kinds, After
<1>4. Partial(after(j), store') /\ Touched(destination(r), store, store')
    BY <1>1, <1>3 DEF Partial, Touched
<1> QED
    BY <1>1, <1>2, <1>3, <1>4, PlainStep

LEMMA StepSealSource ==
    ASSUME Inductive, NEW r \in Request, sealSource(r)
    PROVE  Inductive'
<1> DEFINE j == job[r]
<1>0. store[Source] # None /\ store' = [store EXCEPT ![Source].sealed = TRUE]
    BY DEF sealSource
<1>1. /\ pc[r] = "step" /\ stepsOf(j.mode)[j.step] = "seal-source"
      /\ stepDone(r, j) /\ UNCHANGED <<locks, results>>
    BY DEF sealSource, at
<1>2. /\ j \in Job /\ j.mode \in Mode /\ Under(j) /\ store \in Storage
      /\ j.step \in 1 .. lastStep(j.mode) /\ lastStep(j.mode) \in 3 .. 9
    BY <1>1, Stepping
<1>3. /\ j.step = 3 /\ after(j).step = 4 /\ after(j).mode = j.mode
      /\ j.mode \in {"isolate", "copy-and-seal", "seal"}
    BY <1>1, <1>2, Kinds, After
<1>4. SourceSealed(store')
    BY <1>0, <1>1, <1>2 DEF SourceSealed, Storage, Artifact, Place
<1>5. Partial(after(j), store') /\ Touched(destination(r), store, store')
    BY <1>0, <1>1, <1>3, <1>4 DEF Partial, Touched
<1>6. j.step < lastStep(j.mode)
    BY <1>2, <1>3, PlanLength
<1> QED
    BY <1>1, <1>2, <1>3, <1>5, <1>6, PlainStep

LEMMA StepCreateNamespace ==
    ASSUME Inductive, NEW r \in Request, createNamespace(r)
    PROVE  Inductive'
<1> DEFINE j == job[r]
<1>1. /\ pc[r] = "step" /\ stepsOf(j.mode)[j.step] = "create-namespace"
      /\ stepDone(r, j) /\ UNCHANGED <<store, locks, results>>
    BY DEF createNamespace, at
<1>2. /\ j \in Job /\ j.mode \in Mode /\ Under(j) /\ Partial(j, store)
      /\ j.step \in 1 .. lastStep(j.mode) /\ lastStep(j.mode) \in 3 .. 9
    BY <1>1, Stepping
<1>3. /\ j.step = 4 /\ after(j).step = 5 /\ after(j).mode = j.mode
      /\ j.mode \in {"isolate", "copy-and-seal"}
    BY <1>1, <1>2, Kinds, After
<1>4. Partial(after(j), store') /\ Touched(destination(r), store, store')
    BY <1>1, <1>2, <1>3 DEF Partial, Touched
<1>5. j.step < lastStep(j.mode)
    BY <1>2, <1>3, PlanLength
<1> QED
    BY <1>1, <1>2, <1>3, <1>4, <1>5, PlainStep

LEMMA StepCopyArtifact ==
    ASSUME Inductive, NEW r \in Request, copyArtifact(r)
    PROVE  Inductive'
<1> DEFINE j == job[r]
<1>0. store[Source] # None /\ store' = [store EXCEPT ![destination(r)] = store[Source]]
    BY DEF copyArtifact
<1>1. /\ pc[r] = "step" /\ stepsOf(j.mode)[j.step] = "copy-artifact"
      /\ stepDone(r, j) /\ UNCHANGED <<locks, results>>
    BY DEF copyArtifact, at
<1>2. /\ j \in Job /\ j.mode \in Mode /\ Under(j) /\ Partial(j, store) /\ store \in Storage
      /\ j.step \in 1 .. lastStep(j.mode) /\ lastStep(j.mode) \in 3 .. 9
      /\ j.operation \in Operation
    BY <1>1, Stepping
<1>3. /\ j.step = 5 /\ after(j).step = 6 /\ after(j).mode = j.mode
      /\ after(j).operation = j.operation /\ j.mode = "copy-and-seal"
    BY <1>1, <1>2, Kinds, After
<1>4. SourceSealed(store)
    BY <1>2, <1>3 DEF Partial
<1>5. SourceSealed(store') /\ PutAway(store', j.operation)
    BY <1>0, <1>1, <1>2, <1>4, PlacesDiffer, Located
    DEF SourceSealed, PutAway, Storage, Place, destination
<1>6. Partial(after(j), store') /\ Touched(destination(r), store, store')
    BY <1>0, <1>1, <1>3, <1>5 DEF Partial, Touched
<1>7. j.step < lastStep(j.mode)
    BY <1>2, <1>3, PlanLength
<1> QED
    BY <1>1, <1>2, <1>3, <1>6, <1>7, PlainStep

LEMMA StepMoveArtifact ==
    ASSUME Inductive, NEW r \in Request, moveArtifact(r)
    PROVE  Inductive'
<1> DEFINE j == job[r]
           k == [j EXCEPT !.moved = TRUE]
<1>0. /\ store[Source] # None
      /\ store' = [store EXCEPT ![destination(r)] = store[Source], ![Source] = None]
    BY DEF moveArtifact
<1>1. /\ pc[r] = "step" /\ stepsOf(j.mode)[j.step] = "move-artifact"
      /\ stepDone(r, k) /\ UNCHANGED <<locks, results>>
    BY DEF moveArtifact, at
<1>2. /\ j \in Job /\ j # None /\ j.mode \in Mode /\ Under(j) /\ Partial(j, store)
      /\ store \in Storage
      /\ j.step \in 1 .. lastStep(j.mode) /\ lastStep(j.mode) \in 3 .. 9
      /\ j.operation \in Operation
    BY <1>1, Stepping
<1>3. j.step = 5 /\ j.mode = "isolate"
    BY <1>1, <1>2, Kinds
<1>4. k \in Job /\ k.mode = j.mode /\ k.step = 5 /\ k.operation = j.operation /\ k.holds = j.holds
    BY <1>2, <1>3 DEF Job
<1>5. /\ after(k).mode = j.mode /\ after(k).step = 6 /\ after(k).holds = j.holds
      /\ after(k).outcome = j.outcome
      /\ after(k).degraded = j.degraded /\ after(k).moved /\ after(k).verified = j.verified
      /\ after(k).operation = j.operation
    <2>1. /\ k.outcome = j.outcome /\ k.degraded = j.degraded /\ k.moved
          /\ k.verified = j.verified
        BY <1>2 DEF Job
    <2> HIDE DEF k
    <2> QED
        BY <1>4, <2>1, After
<1>6. SourceSealed(store)
    BY <1>2, <1>3 DEF Partial
<1>7. store'[Source] = None /\ SourceSealed(store') /\ PutAway(store', j.operation)
    BY <1>0, <1>1, <1>2, <1>6, PlacesDiffer, Located
    DEF SourceSealed, PutAway, Storage, Place, destination
<1>8. Partial(after(k), store')
    BY <1>3, <1>5, <1>7 DEF Partial
<1>9. lastStep(j.mode) = 8
    BY <1>2, <1>3, PlanLength
<1>10. Under(after(k))
    BY <1>2, <1>3, <1>5, <1>9 DEF Under
<1>11. LockMoves(r, k) /\ StoreMoves(r)
    BY <1>0, <1>1, <1>2, <1>3, <1>4 DEF LockMoves, StoreMoves, Touched, Under
<1> HIDE DEF j, k
<1> QED
    BY <1>1, <1>2, <1>4, <1>8, <1>9, <1>10, <1>11, NextStep

LEMMA StepDeactivateDestination ==
    ASSUME Inductive, NEW r \in Request, deactivateDestination(r)
    PROVE  Inductive'
<1> DEFINE j == job[r]
<1>0. /\ store[destination(r)] # None
      /\ store' = [store EXCEPT ![destination(r)].activatable = FALSE]
    BY DEF deactivateDestination, deactivate
<1>1. /\ pc[r] = "step" /\ stepsOf(j.mode)[j.step] = "deactivate-destination"
      /\ stepDone(r, j) /\ UNCHANGED <<locks, results>>
    BY DEF deactivateDestination, deactivate, at
<1>2. /\ j \in Job /\ j.mode \in Mode /\ Under(j) /\ Partial(j, store) /\ store \in Storage
      /\ j.step \in 1 .. lastStep(j.mode) /\ lastStep(j.mode) \in 3 .. 9
      /\ j.operation \in Operation
    BY <1>1, Stepping
<1>3. /\ j.step = 6 /\ after(j).step = 7 /\ after(j).mode = j.mode
      /\ after(j).operation = j.operation /\ j.mode \in {"isolate", "copy-and-seal"}
    BY <1>1, <1>2, Kinds, After
<1>4. /\ SourceSealed(store) /\ PutAway(store, j.operation)
      /\ j.mode = "isolate" => store[Source] = None
    BY <1>2, <1>3 DEF Partial
<1>5. /\ destination(r) = resolveQuarantineLocation(j.operation)
      /\ destination(r) \in Location
      /\ [store[destination(r)] EXCEPT !.activatable = FALSE] \in Artifact
    BY <1>0, <1>2, Located DEF Artifact, Storage, Place, destination
<1>6. /\ SourceSealed(store') /\ PutAway(store', j.operation)
      /\ Inactive(store', j.operation)
      /\ j.mode = "isolate" => store'[Source] = None
    BY <1>0, <1>2, <1>4, <1>5, PlacesDiffer, NoneAssumption
    DEF SourceSealed, PutAway, Inactive, Storage, Place, Artifact
<1>7. Partial(after(j), store')
    BY <1>3, <1>6 DEF Partial
<1>8. Touched(destination(r), store, store')
    BY <1>0 DEF Touched
<1>9. j.step < lastStep(j.mode)
    BY <1>2, <1>3, PlanLength
<1> QED
    BY <1>1, <1>2, <1>3, <1>7, <1>8, <1>9, PlainStep

LEMMA StepRemoveActivationReference ==
    ASSUME Inductive, NEW r \in Request, removeActivationReference(r)
    PROVE  Inductive'
<1> DEFINE j == job[r]
<1>0. /\ store[Source] # None
      /\ store' = [store EXCEPT ![Source].activatable = FALSE]
    BY DEF removeActivationReference, deactivate
<1>1. /\ pc[r] = "step" /\ stepsOf(j.mode)[j.step] = "remove-activation-reference"
      /\ stepDone(r, j) /\ UNCHANGED <<locks, results>>
    BY DEF removeActivationReference, deactivate, at
<1>2. /\ j \in Job /\ j.mode \in Mode /\ Under(j) /\ Partial(j, store) /\ store \in Storage
      /\ j.step \in 1 .. lastStep(j.mode) /\ lastStep(j.mode) \in 3 .. 9
      /\ j.operation \in Operation
    BY <1>1, Stepping
<1>3. /\ \/ j.step = 8 /\ j.mode = "copy-and-seal"
         \/ j.step = 3 /\ j.mode = "deny-activation"
      /\ after(j).step = j.step + 1 /\ after(j).mode = j.mode
      /\ after(j).operation = j.operation
    BY <1>1, <1>2, Kinds, After
<1>4. j.mode = "copy-and-seal" =>
          /\ SourceSealed(store) /\ PutAway(store, j.operation)
          /\ hasOwnDestination(j.operation) => Inactive(store, j.operation)
    BY <1>2, <1>3 DEF Partial
<1>5. [store[Source] EXCEPT !.activatable = FALSE] \in Artifact
    BY <1>0, <1>2 DEF Artifact, Storage, Place
<1>6. /\ SourceInactive(store')
      /\ j.mode = "copy-and-seal" =>
             /\ SourceSealed(store') /\ PutAway(store', j.operation)
             /\ hasOwnDestination(j.operation) => Inactive(store', j.operation)
    BY <1>0, <1>2, <1>4, <1>5, PlacesDiffer, NoneAssumption, Located
    DEF SourceSealed, SourceInactive, PutAway, Inactive, Storage, Place, Artifact
<1>7. Partial(after(j), store')
    BY <1>3, <1>6 DEF Partial
<1>8. Touched(destination(r), store, store')
    BY <1>0 DEF Touched
<1>9. j.step < lastStep(j.mode)
    BY <1>2, <1>3, PlanLength
<1> QED
    BY <1>1, <1>2, <1>3, <1>7, <1>8, <1>9, PlainStep

LEMMA StepVerifyDestination ==
    ASSUME Inductive, NEW r \in Request, verifyDestination(r)
    PROVE  Inductive'
<1> DEFINE j == job[r]
           k == [j EXCEPT !.verified = TRUE]
<1>1. /\ pc[r] = "step" /\ stepsOf(j.mode)[j.step] = "verify-destination"
      /\ stepDone(r, k) /\ UNCHANGED <<store, locks, results>>
    BY DEF verifyDestination, at
<1>2. /\ j \in Job /\ j # None /\ j.mode \in Mode /\ Under(j) /\ Partial(j, store)
      /\ j.step \in 1 .. lastStep(j.mode) /\ lastStep(j.mode) \in 3 .. 9
      /\ j.operation \in Operation
    BY <1>1, Stepping
<1>3. \/ j.step = 7 /\ j.mode \in {"isolate", "copy-and-seal"}
      \/ j.step = 4 /\ j.mode \in {"seal", "deny-activation"}
    BY <1>1, <1>2, Kinds
<1>4. /\ k \in Job /\ k.mode = j.mode /\ k.step = j.step /\ k.operation = j.operation
      /\ k.holds = j.holds
    BY <1>2 DEF Job
<1>5. /\ after(k).mode = j.mode /\ after(k).step = j.step + 1 /\ after(k).holds = j.holds
      /\ after(k).outcome = j.outcome
      /\ after(k).degraded = j.degraded /\ after(k).moved = j.moved /\ after(k).verified
      /\ after(k).operation = j.operation
    <2>1. /\ k.outcome = j.outcome /\ k.degraded = j.degraded /\ k.moved = j.moved
          /\ k.verified
        BY <1>2 DEF Job
    <2> HIDE DEF k
    <2> QED
        BY <1>3, <1>4, <2>1, After
<1>6. j.step < lastStep(j.mode)
    BY <1>2, <1>3, PlanLength
<1>7. Partial(after(k), store')
    BY <1>1, <1>2, <1>3, <1>5 DEF Partial
<1>8. Under(after(k))
    BY <1>2, <1>3, <1>5, <1>6 DEF Under
<1>9. LockMoves(r, k) /\ StoreMoves(r)
    BY <1>1, <1>2, <1>4 DEF LockMoves, StoreMoves
<1> HIDE DEF j, k
<1> QED
    BY <1>1, <1>2, <1>4, <1>6, <1>7, <1>8, <1>9, NextStep

-----------------------------------------------------------------------------
(* After the steps.                                                         *)

\* When the last step is done the artifact is contained.
LEMMA AllStepsDone ==
    ASSUME NEW j \in Job, NEW st, Under(j), Partial(j, st), j.step = lastStep(j.mode)
    PROVE  /\ Safe(j.mode, j.operation, st) /\ MoveTold(j)
           /\ j.mode = "copy-and-seal" /\ hasOwnDestination(j.operation) =>
                  Inactive(st, j.operation)
<1>1. j.mode \in Mode /\ j.outcome = None
    BY DEF Under
<1>2. /\ j.mode = "isolate" => j.step = 8
      /\ j.mode = "copy-and-seal" => j.step = 9
      /\ j.mode \in {"seal", "deny-activation"} => j.step = 5
    BY <1>1, PlanLength
<1>3. j.mode = "isolate" => SourceInactive(st)
    BY <1>2 DEF Partial, SourceInactive
<1>4. Safe(j.mode, j.operation, st)
    BY <1>1, <1>2, <1>3 DEF Partial, Safe
<1>5. MoveTold(j)
    BY <1>1, <1>2, NoneAssumption DEF Under, MoveTold, Outcome
<1>6. j.mode = "copy-and-seal" /\ hasOwnDestination(j.operation) => Inactive(st, j.operation)
    BY <1>2 DEF Partial
<1> QED
    BY <1>4, <1>5, <1>6

\* What a contained artifact is answered with.
LEMMA Concluded ==
    ASSUME Inductive, NEW r \in Request, NEW k \in Job, concludes(r, k),
           k.mode \in Mode, k.outcome = None, k.holds => k.degraded, MoveTold(k),
           Safe(k.mode, k.operation, store),
           LookedAfter("record", k) => Inactive(store, k.operation),
           LockMoves(r, k), store' = store, results' = results
    PROVE  Inductive'
<1> USE NoneAssumption
<1>1. ASSUME NEW o \in Outcome \ {"verification-failed"}, NEW p \in {"record", "done"},
             goes(r, p, [k EXCEPT !.outcome = o]),
             o = "containment-failed" => k.degraded
      PROVE  Inductive'
    <2> DEFINE k2 == [k EXCEPT !.outcome = o]
    <2>1. /\ k2 \in Job /\ k2.mode = k.mode /\ k2.outcome = o /\ k2.holds = k.holds
          /\ k2.degraded = k.degraded /\ k2.moved = k.moved /\ k2.verified = k.verified
          /\ k2.operation = k.operation /\ k2.demand = k.demand
        BY DEF Job
    <2>2. goes(r, p, k2)
        BY <1>1
    <2> HIDE DEF k2
    <2>3. MoveTold(k2)
        BY <1>1, <2>1 DEF MoveTold, Outcome
    <2>4. Control(p, k2)
        BY <1>1, <2>1, <2>3 DEF Control, Outcome
    <2>5. Contained(p, k2, store')
        <3>1. LookedAfter("record", k2) <=> LookedAfter("record", k)
            BY <2>1 DEF LookedAfter
        <3> QED
            BY <2>1, <3>1 DEF Contained
    <2>6. LockMoves(r, k2) /\ StoreMoves(r) /\ ResultMoves(r)
        BY <2>1 DEF LockMoves, StoreMoves, ResultMoves
    <2> QED
        BY <2>1, <2>2, <2>4, <2>5, <2>6, Preserved DEF Stage
<1>2. CASE k.degraded /\ goes(r, "done", [k EXCEPT !.outcome = "containment-failed"])
    BY <1>1, <1>2 DEF Outcome
<1>3. CASE goes(r, "record", [k EXCEPT !.outcome = finalOutcome(k)])
    <2>1. finalOutcome(k) \in Outcome \ {"verification-failed", "containment-failed"}
        BY DEF finalOutcome, Outcome
    <2> QED
        BY <1>1, <1>3, <2>1
<1> QED
    BY <1>2, <1>3 DEF concludes

\* The end of the steps, with or without a verification to come.
LEMMA StepsEnd ==
    ASSUME Inductive, NEW r \in Request, NEW k \in Job, afterSteps(r, k),
           k.mode \in Mode, k.outcome = None, k.holds => k.degraded, MoveTold(k),
           Safe(k.mode, k.operation, store),
           k.mode = "copy-and-seal" /\ hasOwnDestination(k.operation) =>
               Inactive(store, k.operation),
           LockMoves(r, k), store' = store, results' = results
    PROVE  Inductive'
<1>1. CASE checksOf(k.mode) # << >> /\ goes(r, "verify", [k EXCEPT !.step = 1])
    <2> DEFINE k2 == [k EXCEPT !.step = 1]
    <2>1. /\ k2 \in Job /\ k2.mode = k.mode /\ k2.outcome = k.outcome /\ k2.holds = k.holds
          /\ k2.degraded = k.degraded /\ k2.moved = k.moved /\ k2.verified = k.verified
          /\ k2.operation = k.operation /\ k2.step = 1
        BY DEF Job
    <2>2. goes(r, "verify", k2)
        BY <1>1
    <2> HIDE DEF k2
    <2>3. 1 <= lastCheck(k.mode)
        BY <1>1, ChecksPlan
    <2>4. MoveTold(k2)
        BY <2>1 DEF MoveTold
    <2>5. Control("verify", k2)
        BY <2>1, <2>3, <2>4 DEF Control
    <2>6. Contained("verify", k2, store')
        BY <2>1 DEF Contained, LookedAfter
    <2>7. LockMoves(r, k2) /\ StoreMoves(r) /\ ResultMoves(r)
        BY <2>1 DEF LockMoves, StoreMoves, ResultMoves
    <2> QED
        BY <2>1, <2>2, <2>5, <2>6, <2>7, Preserved DEF Stage
<1>2. CASE /\ k.mode = "copy-and-seal" => ~ k.demand.policy.requireDestinationVerification
           /\ concludes(r, k)
    <2>1. LookedAfter("record", k) => Inactive(store, k.operation)
        BY <1>2 DEF LookedAfter
    <2> QED
        BY <1>2, <2>1, Concluded
<1>3. checksOf("copy-and-seal") # << >>
    BY DEF checksOf
<1> QED
    BY <1>1, <1>2, <1>3 DEF afterSteps

LEMMA StepReleaseLock ==
    ASSUME Inductive, NEW r \in Request, releaseLock(r)
    PROVE  Inductive'
<1> DEFINE j == job[r]
           k == [j EXCEPT !.holds = FALSE]
<1>1. /\ pc[r] = "step" /\ stepsOf(j.mode)[j.step] = "release-lock"
      /\ locks' = locks \ {j.operation} /\ stepDone(r, k) /\ UNCHANGED <<store, results>>
    BY DEF releaseLock, at
<1>2. /\ j \in Job /\ j # None /\ j.mode \in Mode /\ Under(j) /\ Partial(j, store)
      /\ j.step \in 1 .. lastStep(j.mode) /\ lastStep(j.mode) \in 3 .. 9
    BY <1>1, Stepping
<1>3. j.step = lastStep(j.mode)
    BY <1>1, <1>2, Kinds
<1>4. /\ Safe(j.mode, j.operation, store) /\ MoveTold(j)
      /\ j.mode = "copy-and-seal" /\ hasOwnDestination(j.operation) =>
             Inactive(store, j.operation)
    BY <1>2, <1>3, AllStepsDone
<1>5. /\ k \in Job /\ k.mode = j.mode /\ k.step = j.step /\ k.operation = j.operation
      /\ ~ k.holds /\ k.outcome = j.outcome /\ k.degraded = j.degraded
      /\ k.moved = j.moved /\ k.verified = j.verified
    BY <1>2 DEF Job
<1>6. j.outcome = None /\ j.holds
    BY <1>2, <1>3 DEF Under
<1> HIDE DEF k
<1>7. MoveTold(k)
    BY <1>4, <1>5 DEF MoveTold
<1>8. LockMoves(r, k)
    BY <1>1, <1>2, <1>5, <1>6 DEF LockMoves
<1>9. ~ (k.step < lastStep(k.mode))
    BY <1>2, <1>3, <1>5
<1>10. afterSteps(r, k)
    BY <1>1, <1>5, <1>9 DEF stepDone, lastStep
<1> QED
    BY <1>1, <1>2, <1>4, <1>5, <1>6, <1>7, <1>8, <1>10, StepsEnd

LEMMA StepReleaseFails ==
    ASSUME Inductive, NEW r \in Request, releaseFails(r)
    PROVE  Inductive'
<1> DEFINE j == job[r]
           k == [j EXCEPT !.degraded = TRUE]
<1>1. /\ pc[r] = "step" /\ stepsOf(j.mode)[j.step] = "release-lock"
      /\ stepDone(r, k) /\ UNCHANGED <<store, locks, results>>
    BY DEF releaseFails, at
<1>2. /\ j \in Job /\ j # None /\ j.mode \in Mode /\ Under(j) /\ Partial(j, store)
      /\ j.step \in 1 .. lastStep(j.mode) /\ lastStep(j.mode) \in 3 .. 9
    BY <1>1, Stepping
<1>3. j.step = lastStep(j.mode)
    BY <1>1, <1>2, Kinds
<1>4. /\ Safe(j.mode, j.operation, store) /\ MoveTold(j)
      /\ j.mode = "copy-and-seal" /\ hasOwnDestination(j.operation) =>
             Inactive(store, j.operation)
    BY <1>2, <1>3, AllStepsDone
<1>5. /\ k \in Job /\ k.mode = j.mode /\ k.step = j.step /\ k.operation = j.operation
      /\ k.holds = j.holds /\ k.outcome = j.outcome /\ k.degraded
      /\ k.moved = j.moved /\ k.verified = j.verified
    BY <1>2 DEF Job
<1>6. j.outcome = None /\ j.holds
    BY <1>2, <1>3 DEF Under
<1> HIDE DEF k
<1>7. ~ (k.step < lastStep(k.mode))
    BY <1>2, <1>3, <1>5
<1>8. goes(r, "unlock", k)
    BY <1>1, <1>5, <1>6, <1>7 DEF stepDone, lastStep
<1>9. Control("unlock", k)
    BY <1>2, <1>4, <1>5, <1>6 DEF Control, MoveTold
<1>10. Contained("unlock", k, store')
    BY <1>1, <1>4, <1>5 DEF Contained, LookedAfter
<1>11. LockMoves(r, k) /\ StoreMoves(r) /\ ResultMoves(r)
    BY <1>1, <1>2, <1>5 DEF LockMoves, StoreMoves, ResultMoves
<1> QED
    BY <1>5, <1>8, <1>9, <1>10, <1>11, Preserved DEF Stage

LEMMA StepFails ==
    ASSUME Inductive, NEW r \in Request, requiredStepFails(r)
    PROVE  Inductive'
<1> USE NoneAssumption
<1> DEFINE j == job[r]
           k == [j EXCEPT !.outcome = failure(j)]
           p == IF j.holds THEN "unlock" ELSE "record"
<1>1. /\ pc[r] = "step" /\ stepsOf(j.mode)[j.step] # "release-lock"
      /\ goes(r, p, k) /\ UNCHANGED <<store, locks, results>>
    BY DEF requiredStepFails, at
<1>2. /\ j \in Job /\ j # None /\ j.mode \in Mode /\ Under(j)
      /\ j.step \in 1 .. lastStep(j.mode) /\ lastStep(j.mode) \in 3 .. 9
    BY <1>1, Stepping
<1>3. j.step < lastStep(j.mode)
    BY <1>1, <1>2, Kinds
<1>4. failure(j) \in Failed /\ (j.moved => failure(j) = "verification-failed")
    <2>1. j.moved => ~ j.verified
        BY <1>2, <1>3, PlanLength DEF Under
    <2> QED
        BY <2>1 DEF failure, Failed
<1>5. /\ k \in Job /\ k.mode = j.mode /\ k.operation = j.operation
      /\ k.holds = j.holds /\ k.outcome = failure(j) /\ k.degraded = j.degraded
      /\ k.moved = j.moved /\ k.verified = j.verified
    BY <1>2, <1>4 DEF Job, Failed, Outcome
<1>6. p \in {"record", "unlock"} /\ (p = "unlock" <=> j.holds)
    OBVIOUS
<1> HIDE DEF k, p
<1>7. MoveTold(k)
    BY <1>4, <1>5 DEF MoveTold
<1>8. Control(p, k)
    BY <1>2, <1>4, <1>5, <1>6, <1>7 DEF Control, Failed, Outcome
<1>9. Contained(p, k, store')
    BY <1>4, <1>5, <1>6 DEF Contained, Failed, Outcome, Quarantined
<1>10. LockMoves(r, k) /\ StoreMoves(r) /\ ResultMoves(r)
    BY <1>1, <1>2, <1>5 DEF LockMoves, StoreMoves, ResultMoves
<1> QED
    BY <1>1, <1>5, <1>6, <1>8, <1>9, <1>10, Preserved DEF Stage

LEMMA StepUnlock ==
    ASSUME Inductive, NEW r \in Request, unlock(r)
    PROVE  Inductive'
<1> USE NoneAssumption
<1> DEFINE j == job[r]
<1>1. pc[r] = "unlock" /\ UNCHANGED <<store, results>>
    BY DEF unlock
<1>2. PICK released \in BOOLEAN :
          LET k == [j EXCEPT !.holds = ~ released]
          IN  /\ locks' = IF released THEN locks \ {k.operation} ELSE locks
              /\ IF k.outcome # None THEN goes(r, "record", k) ELSE afterSteps(r, k)
    BY PortsMayFail DEF unlock
<1> DEFINE k == [j EXCEPT !.holds = ~ released]
<1>3. /\ j \in Job /\ j # None /\ Control("unlock", j) /\ Contained("unlock", j, store)
    BY <1>1 DEF Inductive, TypeOK
<1>4. /\ k \in Job /\ k.mode = j.mode /\ k.operation = j.operation
      /\ (k.holds <=> ~ released) /\ k.outcome = j.outcome /\ k.degraded = j.degraded
      /\ k.moved = j.moved /\ k.verified = j.verified
    BY <1>3 DEF Job
<1>5. /\ locks' = IF released THEN locks \ {k.operation} ELSE locks
      /\ k.outcome # None => goes(r, "record", k)
      /\ k.outcome = None => afterSteps(r, k)
    BY <1>2
<1> HIDE DEF k
<1>6. /\ j.mode \in Mode /\ j.holds /\ j.outcome \in {None} \cup Failed
      /\ j.outcome = None => j.degraded
      /\ MoveTold(j)
    BY <1>3 DEF Control
<1>7. LockMoves(r, k)
    BY <1>3, <1>4, <1>5, <1>6 DEF LockMoves
<1>8. MoveTold(k)
    BY <1>4, <1>6 DEF MoveTold
<1>9. CASE k.outcome # None
    <2>1. goes(r, "record", k)
        BY <1>5, <1>9
    <2>2. Control("record", k)
        BY <1>4, <1>6, <1>8, <1>9 DEF Control, Failed
    <2>3. Contained("record", k, store')
        BY <1>4, <1>6, <1>9 DEF Contained, Failed, Quarantined
    <2>4. StoreMoves(r) /\ ResultMoves(r)
        BY <1>1 DEF StoreMoves, ResultMoves
    <2> QED
        BY <1>4, <1>7, <2>1, <2>2, <2>3, <2>4, Preserved DEF Stage
<1>10. CASE k.outcome = None
    <2>1. /\ afterSteps(r, k) /\ Safe(k.mode, k.operation, store)
          /\ k.mode = "copy-and-seal" /\ hasOwnDestination(k.operation) =>
                 Inactive(store, k.operation)
        BY <1>3, <1>4, <1>5, <1>10 DEF Contained, LookedAfter
    <2>2. k.mode \in Mode /\ (k.holds => k.degraded)
        BY <1>4, <1>6, <1>10
    <2> QED
        BY <1>1, <1>4, <1>7, <1>8, <1>10, <2>1, <2>2, StepsEnd
<1> QED
    BY <1>9, <1>10

-----------------------------------------------------------------------------
(* Verification and the record.                                             *)

\* What is known of a request whose containment is being verified.
LEMMA Checking ==
    ASSUME Inductive, NEW r \in Request, pc[r] = "verify"
    PROVE  /\ job[r] \in Job /\ job[r] # None /\ job[r].mode \in Mode
           /\ job[r].outcome = None /\ (job[r].holds => job[r].degraded)
           /\ job[r].step \in 1 .. lastCheck(job[r].mode)
           /\ lastCheck(job[r].mode) \in 0 .. 3
           /\ MoveTold(job[r])
           /\ Safe(job[r].mode, job[r].operation, store)
           /\ LookedAfter("verify", job[r]) => Inactive(store, job[r].operation)
<1>1. job[r] \in Job /\ job[r] # None
    BY NoneAssumption DEF Inductive, TypeOK
<1>2. Control("verify", job[r]) /\ Contained("verify", job[r], store)
    BY DEF Inductive
<1> QED
    BY <1>1, <1>2, ChecksPlan DEF Control, Contained, Job

LEMMA StepCheckDone ==
    ASSUME Inductive, NEW r \in Request, pc[r] = "verify",
           NEW finding \in BOOLEAN, NEW skipped \in {0, 1}, checkDone(r, finding, skipped),
           /\ checksOf(job[r].mode)[job[r].step] = "destination" /\ ~ finding
           => Inactive(store, job[r].operation)
    PROVE  Inductive'
<1> USE NoneAssumption
<1> DEFINE j == job[r]
           k == [j EXCEPT !.findings = @ \/ finding, !.step = @ + 1 + skipped]
           failed == [k EXCEPT !.outcome = "verification-failed"]
           ended == [k EXCEPT !.step = 1]
<1>1. /\ j \in Job /\ j # None /\ j.mode \in Mode /\ j.outcome = None
      /\ j.holds => j.degraded
      /\ j.step \in 1 .. lastCheck(j.mode) /\ lastCheck(j.mode) \in 0 .. 3
      /\ MoveTold(j) /\ Safe(j.mode, j.operation, store)
      /\ LookedAfter("verify", j) => Inactive(store, j.operation)
    BY Checking
<1>2. /\ IF k.step <= lastCheck(k.mode) THEN goes(r, "verify", k)
         ELSE IF k.findings THEN goes(r, "record", failed)
         ELSE concludes(r, ended)
      /\ UNCHANGED <<store, locks, results>>
    BY DEF checkDone, lastCheck
<1>3. /\ k \in Job /\ k.mode = j.mode /\ k.operation = j.operation /\ k.holds = j.holds
      /\ k.outcome = j.outcome /\ k.degraded = j.degraded /\ k.moved = j.moved
      /\ k.verified = j.verified /\ (k.findings <=> j.findings \/ finding)
    <2>1. j.step + 1 + skipped \in 1 .. 9 /\ (j.findings \/ finding) \in BOOLEAN
        BY <1>1
    <2> QED
        BY <1>1, <2>1 DEF Job
<1> HIDE DEF k
<1>3a. k.mode = "copy-and-seal" /\ ~ k.findings => Inactive(store, k.operation)
    <2>1. CASE j.step > 1
        BY <1>1, <1>3, <2>1 DEF LookedAfter
    <2>2. CASE j.step = 1
        BY <1>1, <1>3, <2>2, ChecksPlan
    <2> QED
        BY <1>1, <2>1, <2>2
<1>3b. hasOwnDestination(k.operation) /\ k.mode = "copy-and-seal" => Inactive(store, k.operation)
    BY <1>1, <1>3 DEF LookedAfter
<1>4. /\ failed \in Job /\ failed.mode = k.mode /\ failed.operation = k.operation
      /\ failed.holds = k.holds /\ failed.outcome = "verification-failed"
      /\ failed.degraded = k.degraded
    BY <1>3 DEF Job, Outcome
<1>5. /\ ended \in Job /\ ended.mode = k.mode /\ ended.operation = k.operation
      /\ ended.holds = k.holds /\ ended.outcome = k.outcome
      /\ ended.degraded = k.degraded /\ ended.moved = k.moved
      /\ ended.verified = k.verified
    BY <1>3 DEF Job
<1> HIDE DEF failed, ended
<1>6. StoreMoves(r) /\ ResultMoves(r)
    BY <1>2 DEF StoreMoves, ResultMoves
<1>7. CASE k.step <= lastCheck(k.mode) /\ goes(r, "verify", k)
    <2>1. Control("verify", k) /\ Contained("verify", k, store')
        BY <1>1, <1>2, <1>3, <1>7, <1>3a, <1>3b DEF Control, Contained, LookedAfter, MoveTold
    <2>2. LockMoves(r, k)
        BY <1>1, <1>2, <1>3 DEF LockMoves
    <2> QED
        BY <1>3, <1>6, <1>7, <2>1, <2>2, Preserved DEF Stage
<1>8. CASE goes(r, "record", failed)
    <2>1. Control("record", failed) /\ Contained("record", failed, store')
        BY <1>4 DEF Control, Contained, MoveTold, Failed, Quarantined, Outcome
    <2>2. LockMoves(r, failed)
        BY <1>1, <1>2, <1>3, <1>4 DEF LockMoves
    <2> QED
        BY <1>4, <1>6, <1>8, <2>1, <2>2, Preserved DEF Stage
<1>9. CASE ~ k.findings /\ concludes(r, ended)
    <2>1. /\ ended.mode \in Mode /\ ended.outcome = None /\ (ended.holds => ended.degraded)
          /\ Safe(ended.mode, ended.operation, store)
        BY <1>1, <1>3, <1>5
    <2>2. MoveTold(ended)
        BY <1>1, <1>3, <1>5 DEF MoveTold
    <2>3. LockMoves(r, ended)
        BY <1>1, <1>2, <1>3, <1>5 DEF LockMoves
    <2>4. LookedAfter("record", ended) => Inactive(store, ended.operation)
        BY <1>5, <1>9, <1>3a DEF LookedAfter
    <2> QED
        BY <1>2, <1>5, <1>9, <2>1, <2>2, <2>3, <2>4, Concluded
<1> QED
    BY <1>2, <1>7, <1>8, <1>9

LEMMA StepChecks ==
    ASSUME Inductive, NEW r \in Request,
           checkDestination(r) \/ checkIdentity(r) \/ checkSource(r)
    PROVE  Inductive'
<1> DEFINE j == job[r]
<1>1. pc[r] = "verify"
    BY DEF checkDestination, checkIdentity, checkSource, checking
<1>2. /\ j \in Job /\ j.mode \in Mode /\ j.step \in 1 .. lastCheck(j.mode)
      /\ Safe(j.mode, j.operation, store) /\ j.operation \in Operation
    BY <1>1, Checking DEF Job
<1>3. store \in Storage
    BY DEF Inductive, TypeOK, Storage
<1>4. store[destination(r)] # None => store[destination(r)].activatable \in BOOLEAN
    BY <1>2, <1>3, Located DEF Storage, Artifact, Place, destination
<1>5. CASE checkDestination(r)
    <2>1. \/ checkDone(r, TRUE, 1)
          \/ store[destination(r)] # None /\ checkDone(r, store[destination(r)].activatable, 0)
        BY <1>5 DEF checkDestination
    <2> QED
        BY <1>1, <1>4, <2>1, StepCheckDone DEF Inactive, destination
<1>6. CASE checkIdentity(r)
    <2>1. checksOf(j.mode)[j.step] = "identity"
        BY <1>6 DEF checkIdentity, checking
    <2>2. store[destination(r)] # None
        BY <1>2, <2>1, ChecksPlan DEF Safe, PutAway, destination
    <2>3. checkDone(r, store[destination(r)].activatable, 0) \/ checkDone(r, TRUE, 0)
        BY <1>6 DEF checkIdentity
    <2> QED
        BY <1>1, <1>4, <2>1, <2>2, <2>3, StepCheckDone
<1>7. CASE checkSource(r)
    <2>1. /\ checksOf(j.mode)[j.step] # "destination"
          /\ \E finding \in BOOLEAN : checkDone(r, finding, 0)
        BY <1>7 DEF checkSource, checking
    <2> QED
        BY <1>1, <2>1, StepCheckDone
<1> QED
    BY <1>5, <1>6, <1>7

LEMMA StepThrows ==
    ASSUME Inductive, NEW r \in Request, throws(r)
    PROVE  Inductive'
<1> USE NoneAssumption
<1> DEFINE j == job[r]
           k == [j EXCEPT !.outcome = "throws"]
<1>1. /\ pc[r] \in {"record", "verify"} /\ goes(r, "done", k)
      /\ UNCHANGED <<store, locks, results>>
    BY DEF throws
<1>2. j \in Job /\ j # None
    BY <1>1 DEF Inductive, TypeOK
<1>3. /\ k \in Job /\ k.operation = j.operation /\ k.holds = j.holds
      /\ k.outcome = "throws"
    BY <1>2 DEF Job
<1> HIDE DEF k
<1>4. Control("done", k) /\ Contained("done", k, store')
    BY <1>3 DEF Control, Contained, MoveTold
<1>5. LockMoves(r, k) /\ StoreMoves(r) /\ ResultMoves(r)
    BY <1>1, <1>2, <1>3 DEF LockMoves, StoreMoves, ResultMoves
<1> QED
    BY <1>1, <1>3, <1>4, <1>5, Preserved DEF Stage

LEMMA StepRecordResult ==
    ASSUME Inductive, NEW r \in Request, recordResult(r)
    PROVE  Inductive'
<1> USE NoneAssumption
<1> DEFINE j == job[r]
<1>1. /\ pc[r] = "record" /\ goes(r, "done", j) /\ UNCHANGED <<store, locks>>
      /\ results' = [results EXCEPT ![j.operation] =
                         [outcome |-> j.outcome, decision |-> j.demand.decision,
                          mode |-> j.mode,
                          verified |-> j.demand.policy.requireDestinationVerification]]
    BY DEF recordResult
<1>2. j \in Job /\ j # None /\ Control("record", j)
    BY <1>1 DEF Inductive, TypeOK
<1>3. j.outcome \in Outcome /\ j.demand.decision \in Decision
    BY <1>2, DemandAssumption DEF Control, Job
<1>4. Control("done", j) /\ Contained("done", j, store')
    BY <1>2 DEF Control, Contained
<1>5. ResultMoves(r)
    BY <1>1, <1>3 DEF ResultMoves
<1>6. LockMoves(r, j) /\ StoreMoves(r) /\ goes(r, "done", j)
    BY <1>1, <1>2 DEF LockMoves, StoreMoves
<1> QED
    BY <1>2, <1>4, <1>5, <1>6, Preserved DEF Stage

-----------------------------------------------------------------------------
(* The beginning of a request.                                              *)

LEMMA ResolvedMode ==
    ASSUME NEW policy
    PROVE  resolveQuarantineMode(policy) \in Mode \cup {None}
<1> DEFINE allowed == {i \in DOMAIN ModePreference :
                          /\ ModePreference[i] \in policy.allowedModes
                          /\ ModePreference[i] = "manual-containment" =>
                                 policy.allowManualContainment}
<1>1. DOMAIN ModePreference = 1 .. 5 /\ \A i \in 1 .. 5 : ModePreference[i] \in Mode
    BY DEF ModePreference, Mode
<1>2. ASSUME allowed # {}
      PROVE  Min(allowed) \in 1 .. 5
    <2>1. allowed \subseteq 1 .. 5
        BY <1>1
    <2>2. \E i \in allowed : \A d \in allowed : i <= d
        <3> HIDE DEF allowed
        <3> SUFFICES ASSUME \A i \in allowed : \E d \in allowed : d < i
                     PROVE  FALSE
            BY <2>1
        <3>1. 1 \notin allowed
            BY <2>1
        <3>2. 2 \notin allowed
            BY <2>1, <3>1
        <3>3. 3 \notin allowed
            BY <2>1, <3>1, <3>2
        <3>4. 4 \notin allowed
            BY <2>1, <3>1, <3>2, <3>3
        <3>5. 5 \notin allowed
            BY <2>1, <3>1, <3>2, <3>3, <3>4
        <3>6. PICK i \in allowed : TRUE
            BY <1>2
        <3>7. i = 1 \/ i = 2 \/ i = 3 \/ i = 4 \/ i = 5
            BY <2>1, <3>6
        <3> QED
            BY <3>1, <3>2, <3>3, <3>4, <3>5, <3>6, <3>7
    <2>3. Min(allowed) \in allowed
        BY <2>2 DEF Min
    <2> QED
        BY <2>1, <2>3
<1> DEFINE weaker(i) == \E d \in 1 .. i - 1 : ModePreference[d] = policy.defaultMode
           unfit == weaker(Min(allowed)) /\ ~ policy.allowCopyFallback
                        /\ ~ policy.allowDegradedContainment
<1>3. resolveQuarantineMode(policy) =
          IF allowed = {} \/ unfit THEN None ELSE ModePreference[Min(allowed)]
    BY DEF resolveQuarantineMode
<1> HIDE DEF allowed, unfit
<1> QED
    BY <1>1, <1>2, <1>3

LEMMA StepQuarantine ==
    ASSUME Inductive, NEW r \in Request, quarantine(r)
    PROVE  Inductive'
<1> USE NoneAssumption
<1>1. pc[r] = "idle" /\ UNCHANGED <<store, locks, results>>
    BY DEF quarantine
<1>2. job[r] = None
    BY <1>1 DEF Inductive, TypeOK
<1>3. PICK o \in Operation, d \in Demand :
          LET need == evaluateQuarantinePolicy(d.decision, d.policy)
              mode == IF need = "required" THEN resolveQuarantineMode(d.policy) ELSE None
              j(m, outcome) ==
                  [operation |-> o, demand |-> d, mode |-> m,
                   step |-> 1, holds |-> FALSE, moved |-> FALSE, verified |-> FALSE,
                   degraded |-> FALSE, findings |-> FALSE, outcome |-> outcome]
          IN  \/ results[o] # None /\ goes(r, "done", j(None, recordedAnswer(o, d.decision)))
              \/ goes(r, "record", j(None, "not-required"))
              \/ goes(r, "done", j(None, "policy-conflict"))
              \/ goes(r, "done", j(None, "containment-failed"))
              \/ mode # None /\ goes(r, "step", j(mode, None))
    BY <1>1 DEF quarantine
<1> DEFINE need == evaluateQuarantinePolicy(d.decision, d.policy)
           mode == IF need = "required" THEN resolveQuarantineMode(d.policy) ELSE None
           j(m, outcome) ==
               [operation |-> o, demand |-> d, mode |-> m,
                step |-> 1, holds |-> FALSE, moved |-> FALSE, verified |-> FALSE,
                degraded |-> FALSE, findings |-> FALSE, outcome |-> outcome]
<1>4. \/ results[o] # None /\ goes(r, "done", j(None, recordedAnswer(o, d.decision)))
      \/ goes(r, "record", j(None, "not-required"))
      \/ goes(r, "done", j(None, "policy-conflict"))
      \/ goes(r, "done", j(None, "containment-failed"))
      \/ mode # None /\ goes(r, "step", j(mode, None))
    BY <1>3
<1>5. mode \in Mode \cup {None}
    BY ResolvedMode
<1> HIDE DEF need, mode
<1>6. ASSUME NEW m \in Mode \cup {None}, NEW outcome \in Outcome \cup {None}
      PROVE  /\ j(m, outcome) \in Job /\ j(m, outcome).mode = m /\ j(m, outcome).step = 1
             /\ ~ j(m, outcome).holds /\ ~ j(m, outcome).moved /\ ~ j(m, outcome).verified
             /\ ~ j(m, outcome).degraded /\ j(m, outcome).outcome = outcome
    BY DEF Job
<1> HIDE DEF j
<1>7. ASSUME NEW k \in Job, NEW p \in Stage, ~ k.holds, goes(r, p, k),
             Control(p, k), Contained(p, k, store')
      PROVE  Inductive'
    <2>1. LockMoves(r, k) /\ StoreMoves(r) /\ ResultMoves(r)
        BY <1>1, <1>2, <1>7 DEF LockMoves, StoreMoves, ResultMoves
    <2> QED
        BY <1>7, <2>1, Preserved
<1>8. ASSUME NEW outcome \in Outcome, NEW p \in {"record", "done"},
             p = "record" => outcome \notin Quarantined, goes(r, p, j(None, outcome))
      PROVE  Inductive'
    <2>1. Control(p, j(None, outcome))
        BY <1>6, <1>8 DEF Control, MoveTold, Outcome
    <2>2. Contained(p, j(None, outcome), store')
        BY <1>6, <1>8 DEF Contained
    <2>3. j(None, outcome) \in Job /\ ~ j(None, outcome).holds
        BY <1>6
    <2> QED
        BY <1>7, <1>8, <2>1, <2>2, <2>3 DEF Stage
<1>9. CASE results[o] # None /\ goes(r, "done", j(None, recordedAnswer(o, d.decision)))
    <2>1. recordedAnswer(o, d.decision) \in Outcome
        BY <1>9 DEF recordedAnswer, Inductive, TypeOK, Recorded, Outcome
    <2> QED
        BY <1>8, <1>9, <2>1
<1>10. CASE mode # None /\ goes(r, "step", j(mode, None))
    <2>1. mode \in Mode /\ lastStep(mode) \in 3 .. 9
        BY <1>5, <1>10, PlanLength
    <2>2. Under(j(mode, None)) /\ Partial(j(mode, None), store')
        BY <1>6, <2>1 DEF Under, Partial
    <2>3. Control("step", j(mode, None)) /\ Contained("step", j(mode, None), store')
        BY <2>2 DEF Control, Contained
    <2>4. j(mode, None) \in Job /\ ~ j(mode, None).holds
        BY <1>6, <2>1
    <2> QED
        BY <1>7, <1>10, <2>3, <2>4 DEF Stage
<1>11. {"not-required", "policy-conflict", "containment-failed"} \subseteq Outcome \ Quarantined
    BY DEF Outcome, Quarantined
<1> QED
    BY <1>4, <1>8, <1>9, <1>10, <1>11

-----------------------------------------------------------------------------
(* The theorems.                                                            *)

LEMMA InductiveInit == Init => Inductive
<1> SUFFICES ASSUME Init PROVE Inductive
    OBVIOUS
<1> USE NoneAssumption DEF Init
<1>1. [activatable |-> TRUE, sealed |-> FALSE] \in Artifact
    BY DEF Artifact
<1>2. TypeOK
    BY <1>1 DEF TypeOK
<1>3. LockInv /\ RecordsInv
    BY DEF LockInv, RecordsInv
<1> QED
    BY <1>2, <1>3 DEF Inductive

LEMMA InductiveNext == Inductive /\ [Next]_vars => Inductive'
<1> SUFFICES ASSUME Inductive, [Next]_vars PROVE Inductive'
    OBVIOUS
<1>1. CASE UNCHANGED vars
    BY <1>1 DEF vars, Inductive, TypeOK, LockInv, RecordsInv
<1>2. ASSUME NEW r \in Request, quarantine(r) PROVE Inductive'
    BY <1>2, StepQuarantine
<1>3. ASSUME NEW r \in Request, runStep(r) PROVE Inductive'
    BY <1>3, StepAcquireLock, StepValidateSource, StepSealSource, StepCreateNamespace,
       StepCopyArtifact, StepMoveArtifact, StepDeactivateDestination,
       StepRemoveActivationReference, StepVerifyDestination, StepReleaseLock,
       StepReleaseFails, StepFails, StepUnlock
    DEF runStep
<1>4. ASSUME NEW r \in Request, verifyAndRecord(r) PROVE Inductive'
    BY <1>4, StepChecks, StepThrows, StepRecordResult DEF verifyAndRecord
<1> QED
    BY <1>1, <1>2, <1>3, <1>4 DEF Next

LEMMA InductiveAlways == Spec => []Inductive
BY InductiveInit, InductiveNext, PTL DEF Spec

\* Storage, locks, records and the locals of every request stay within their
\* types.
THEOREM QuarantineTypeCorrect == Spec => []TypeOK
<1>1. Inductive => TypeOK
    BY DEF Inductive
<1> QED
    BY <1>1, InductiveAlways, PTL

\* A recorded quarantine means what it says and goes on meaning it, whatever
\* requests, operations and policies come after it and whichever calls the
\* storage, the lock and the record store refuse.
THEOREM QuarantineHolds == Spec => []QuarantinedIsContained
<1>1. Inductive => QuarantinedIsContained
    BY DEF Inductive, RecordsInv, Safe, PutAway, Inactive, SourceSealed, SourceInactive,
           Quarantined, quarantined, QuarantinedIsContained
<1> QED
    BY <1>1, InductiveAlways, PTL

\* A move that could not be confirmed is never told as a plain failure.
THEOREM MovesAreTold == Spec => []FailuresTellTheMove
<1>1. Inductive => FailuresTellTheMove
    <2> SUFFICES ASSUME Inductive, NEW r \in Request, pc[r] = "done", job[r].moved
                 PROVE  /\ job[r].outcome = "containment-failed" =>
                               job[r].verified /\ job[r].degraded
                        /\ ~ job[r].verified =>
                               job[r].outcome \in {"verification-failed", "throws"}
        BY DEF FailuresTellTheMove
    <2>1. MoveTold(job[r])
        BY DEF Inductive, Control
    <2> QED
        BY <2>1 DEF MoveTold
<1> QED
    BY <1>1, InductiveAlways, PTL

\* A lock has one holder, and a finished request kept it only where it failed
\* or its containment was degraded by the lock's own refusal.
THEOREM OneHolder == Spec => []LocksHaveOneHolder
<1>1. Inductive => LocksHaveOneHolder
    <2> SUFFICES ASSUME Inductive PROVE LocksHaveOneHolder
        OBVIOUS
    <2>1. /\ \A o \in Operation : o \in locks <=>
                 \E r \in Request : job[r] # None /\ job[r].operation = o /\ job[r].holds
          /\ \A r, s \in Request :
                 /\ job[r] # None /\ job[r].holds
                 /\ job[s] # None /\ job[s].holds
                 /\ job[r].operation = job[s].operation
                 => r = s
        BY DEF Inductive, LockInv
    <2>2. ASSUME NEW r \in Request, pc[r] = "done", job[r].holds
          PROVE  job[r].degraded \/ job[r].outcome \notin {"quarantined", "not-required"}
        BY <2>2 DEF Inductive, Control, Failed
    <2> QED
        BY <2>1, <2>2 DEF LocksHaveOneHolder
<1> QED
    BY <1>1, InductiveAlways, PTL
=============================================================================
