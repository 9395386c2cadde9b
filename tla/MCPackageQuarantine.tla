------------------------ MODULE MCPackageQuarantine ------------------------
(***************************************************************************)
(* Two operations whose names end in the same path, and one with a path of *)
(* its own.  The demands: one per containment mode, with and without       *)
(* verification and degraded containment, one that leaves no mode, one     *)
(* that needs no quarantine and one whose emergency rules conflict.        *)
(***************************************************************************)
EXTENDS PackageQuarantine

CONSTANTS request1, request2, operation1, operation2, operation3, shared, own

TwoRequests == {request1, request2}
OneRequest == {request1}
ThreeOperations == {operation1, operation2, operation3}
TwoLocations == {shared, own}

\* "op/1", "op 1" and "op-2", say.
Locations == [o \in ThreeOperations |-> IF o = operation3 THEN own ELSE shared]

policyFor(modes, default) ==
    [quarantineDenied |-> TRUE, quarantineManualReview |-> FALSE,
     quarantineConditionallyTrusted |-> FALSE, emergency |-> {},
     allowedModes |-> modes, defaultMode |-> default,
     requireDestinationVerification |-> TRUE, allowCopyFallback |-> FALSE,
     allowDegradedContainment |-> FALSE, allowManualContainment |-> FALSE]

demand(decision, policy) == [decision |-> decision, policy |-> policy]

Demands ==
    {demand("denied", policyFor({"isolate", "seal"}, "seal")),
     demand("quarantined",
            [policyFor({"isolate"}, "isolate") EXCEPT !.requireDestinationVerification = FALSE,
                                                      !.allowDegradedContainment = TRUE]),
     demand("quarantined", policyFor({"copy-and-seal"}, "copy-and-seal")),
     demand("quarantined",
            [policyFor({"copy-and-seal"}, "copy-and-seal") EXCEPT
                !.requireDestinationVerification = FALSE]),
     demand("denied", policyFor({"seal"}, "seal")),
     demand("trusted", [policyFor({"deny-activation"}, "deny-activation") EXCEPT
                           !.emergency = {"quarantine"}]),
     demand("trusted", [policyFor({"seal"}, "seal") EXCEPT
                           !.emergency = {"quarantine", "exempt"}]),
     demand("denied", [policyFor({"manual-containment"}, "manual-containment") EXCEPT
                           !.allowManualContainment = TRUE]),
     demand("denied", policyFor({"manual-containment"}, "manual-containment")),
     demand("conditionally-trusted", policyFor({"seal"}, "seal"))}
=============================================================================
