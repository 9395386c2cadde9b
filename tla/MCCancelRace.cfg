\* The in-memory build: one execution, one cancel; the cancel handler's comment.
CONSTANTS
    e1 = e1  e2 = e2  c1 = c1  c2 = c2  k1 = k1  x = x  y = y
    NoKey = NoKey  NoRequest = NoRequest  NoPlan = NoPlan  NoActor = NoActor
    Execution <- OneExecution
    CancelRequest <- OneCancel
    Key <- OneKey
    Content <- OneContent
    StepId <- MCStepId
    Plan <- MCPlan
    MaxAttempts = 2
    StoreSuspends = FALSE
SPECIFICATION Spec
INVARIANT
    AcceptedCancelWins
