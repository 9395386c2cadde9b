CONSTANTS
    a1 = a1  a2 = a2  w1 = w1  p1 = p1  p2 = p2  cp1 = cp1  cp2 = cp2  k1 = k1
    None = None
    Artifact <- TwoArtifacts
    Workflow <- OneWorkflow
    Approval <- TwoApprovals
    Checkpoint <- TwoCheckpoints
    Key <- OneKey
    MaxEvidence = 3
SYMMETRY Symmetry
SPECIFICATION Spec
PROPERTY RepliesTellTheState
CHECK_DEADLOCK FALSE
