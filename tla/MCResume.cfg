\* What resume() makes of a saved checkpoint.
CONSTANTS
    reader1 = reader1  reader2 = reader2
    Absent = Absent  Torn = Torn
    Reader <- TwoReaders
    Steps = 2
    MaxRetries = 1
SPECIFICATION Spec
INVARIANT
    CheckpointsCanBeResumed
CHECK_DEADLOCK FALSE
