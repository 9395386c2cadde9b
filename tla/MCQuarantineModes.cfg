\* One request, and storage, lock and records that refuse nothing: each mode on
\* its own.
CONSTANTS
    request1 = request1  request2 = request2
    operation1 = operation1  operation2 = operation2  operation3 = operation3
    shared = shared  own = own
    Source = Source  None = None
    Request <- OneRequest
    Operation <- ThreeOperations
    Location <- TwoLocations
    locationOf <- Locations
    Demand <- Demands
    PortsFail = FALSE
SPECIFICATION Spec
INVARIANT
    UndisturbedContainmentSucceeds
\* Once the request is answered nothing is left to do.
CHECK_DEADLOCK FALSE
