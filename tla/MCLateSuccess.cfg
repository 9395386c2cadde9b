\* What does not hold: a skill that timed out may succeed beside its retry.
CONSTANTS
    s1 = s1
    NoPlan = NoPlan
    MaxAttempts = 2
    Session <- OneSession
    StepId <- TwoSteps
    Plan <- Plans
    RetryableStatuses <- Retryable
SPECIFICATION Spec
PROPERTIES
    WorkIsDoneOnce
