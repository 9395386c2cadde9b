\* The in-memory build: two submissions that may share a key, one cancel.
CONSTANTS
    e1 = e1  e2 = e2  c1 = c1  c2 = c2  k1 = k1  x = x  y = y
    NoKey = NoKey  NoRequest = NoRequest  NoPlan = NoPlan  NoActor = NoActor
    Execution <- TwoExecutions
    CancelRequest <- OneCancel
    Key <- OneKey
    Content <- TwoContents
    StepId <- MCStepId
    Plan <- MCPlan
    MaxAttempts = 2
    StoreSuspends = FALSE
SPECIFICATION Spec
INVARIANTS
    OneExecutionPerKey
    AcceptedCancelTakesEffect
PROPERTIES
    ImplementsLifecycle
