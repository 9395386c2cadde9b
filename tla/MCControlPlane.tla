--------------------------- MODULE MCControlPlane ---------------------------
(***************************************************************************)
(* One workflow: a request reads no other workflow's record.  Two of every *)
(* other thing, so that an approval may be for the other artifact and a    *)
(* checkpoint be another than the one of the apply.                        *)
(***************************************************************************)
EXTENDS ControlPlane, TLC

CONSTANTS a1, a2, w1, p1, p2, cp1, cp2, k1

TwoArtifacts == {a1, a2}
OneWorkflow == {w1}
TwoApprovals == {p1, p2}
TwoCheckpoints == {cp1, cp2}
OneKey == {k1}

\* Identifiers are interchangeable, and no property here is a liveness one.
Symmetry == Permutations(Artifact) \cup Permutations(Approval) \cup Permutations(Checkpoint)
=============================================================================
