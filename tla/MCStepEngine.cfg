\* Two attempts at either level, so that the levels multiply; no symmetry.
CONSTANTS
    s1 = s1
    NoPlan = NoPlan
    MaxAttempts = 2
    Session <- OneSession
    StepId <- TwoSteps
    Plan <- Plans
    RetryableStatuses <- Retryable
SPECIFICATION FairSpec
INVARIANTS
    LateSkillsAreBounded
PROPERTIES
    ImplementsSupervisor
    SuccessEndsTheStep
    FinalFailuresAreNotRetried
