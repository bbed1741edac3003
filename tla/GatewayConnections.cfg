SPECIFICATION Spec
CONSTANTS
    Clients <- SmallClients
    Descriptors <- SmallDescriptors
    MaxConnectionId = 2
    maximum_connections = 2
    maximum_in_flight = 1
    MaxPending = 1
    MaxOutput = 1
    MaxRequests <- SmallRequests
    Leaves <- SmallLeaves
INVARIANT EventsAreFresh
INVARIANT AnswersReachTheirClient
PROPERTY ClosingCloses
