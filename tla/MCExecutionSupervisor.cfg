CONSTANTS
    s1 = s1
    NoPlan = NoPlan
    MaxAttempts = 2
    Session <- MCSession
    StepId <- MCStepId
    Plan <- MCPlan
SPECIFICATION FairSpec
INVARIANTS
    TypeOK
    DependenciesCompleteFirst
    VerdictMatchesSteps
    OrderedIffOrderable
PROPERTIES
    CancelStopsNewSteps
    EverySessionEnds
\* A session that has ended and whose cancellation was recorded does nothing more.
CHECK_DEADLOCK FALSE
