\* Two operations in one place, without a verification.
CONSTANTS
    request1 = request1  request2 = request2
    operation1 = operation1  operation2 = operation2  operation3 = operation3
    shared = shared  own = own
    Source = Source  None = None
    Request <- TwoRequests
    Operation <- ThreeOperations
    Location <- TwoLocations
    locationOf <- Locations
    Demand <- Demands
    PortsFail = TRUE
SPECIFICATION Spec
INVARIANT
    DestinationsAreInactive
\* Once every request is answered nothing is left to do.
CHECK_DEADLOCK FALSE
