\* Any store behind the Promise interfaces: every await may let another actor
\* in.  One execution, two cancel requests racing it and each other.
CONSTANTS
    e1 = e1  e2 = e2  c1 = c1  c2 = c2  k1 = k1  x = x  y = y
    NoKey = NoKey  NoRequest = NoRequest  NoPlan = NoPlan  NoActor = NoActor
    Execution <- OneExecution
    CancelRequest <- TwoCancels
    Key <- OneKey
    Content <- OneContent
    StepId <- MCStepId
    Plan <- MCPlan
    MaxAttempts = 2
    StoreSuspends = TRUE
SPECIFICATION FairSpec
INVARIANTS
    OutcomeAgreesWithRecord
    StreamTellsOneStory
    InvalidOutputIsWithheld
PROPERTIES
    TerminalRecordsAreFinal
    EveryExecutionEnds
