\* One execution with crashes; no symmetry, as a liveness property is checked.
CONSTANTS
    reader1 = reader1  reader2 = reader2
    Absent = Absent  Torn = Torn
    Reader <- TwoReaders
    Steps = 2
    MaxRetries = 1
SPECIFICATION FairSpec
INVARIANTS
    CheckpointTellsTheWork
    ResultTellsTheJournal
    ReadersSeeTheJournal
PROPERTY
    ReadersEnd
\* Nothing happens once the execution is over and its readers have read.
CHECK_DEADLOCK FALSE
