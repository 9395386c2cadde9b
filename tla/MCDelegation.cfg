\* Two tasks of one run; no symmetry, as a liveness property is checked.
CONSTANTS
    r1 = r1  t1 = t1  t2 = t2  d1 = d1  d2 = d2
    NoRun = NoRun  NoId = NoId
    Run <- OneRun
    Task <- TwoTasks
    DelegationId <- TwoIds
SPECIFICATION FairSpec
INVARIANTS
    EvidenceTellsTheTask
PROPERTIES
    NoStrandedDelegator
    ResumeWaitsForSiblings
    AnswersAreFinal
    StartedTasksSettle
\* Nothing has to happen once every task is resolved and the run cancelled.
CHECK_DEADLOCK FALSE
