CONSTANTS
    e1 = e1  e2 = e2  a = a  n1 = n1  n2 = n2
    None = None
    Execution <- TwoExecutions
    Client <- OneClient
    Connection <- TwoConnections
    Kind <- OneOfEach
    MaxEvents = 3
SPECIFICATION FairSpec
INVARIANTS
    ExactlyOnceInOrder
    EndedStreamsAreComplete
PROPERTIES
    ImplementsFeed
    SubscribersLearnTheEnd
\* A producer may stop publishing, and a client may stop connecting.
CHECK_DEADLOCK FALSE
