\* What the SDK's runAndWaitTyped() finds.
CONSTANTS
    r1 = r1  t1 = t1  t2 = t2  d1 = d1  d2 = d2
    NoRun = NoRun  NoId = NoId
    Run <- OneRun
    Task <- TwoTasks
    DelegationId <- TwoIds
SPECIFICATION Spec
INVARIANT
    TypedDelegationIsValidated
CHECK_DEADLOCK FALSE
