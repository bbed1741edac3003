SPECIFICATION Spec
CONSTANTS
    Connections = {a, b}
    NoConnection = none
    MaxRequests <- Sent
    Requests = 2
    Unreliable = {a}
    maximum_in_flight = 2
    request_queue_capacity = 2
    max_durable_batch_size = 2
    MaxPending = 4
    MaxOutput = 1
    WorkerThrows = FALSE
INVARIANT TypeOK
INVARIANT NeverTerminates
INVARIANT ReservationsExact
INVARIANT ExactlyOneResponse
INVARIANT ShutdownDrains
INVARIANT DeliveryInOrder
INVARIANT FailStopIsFinal
INVARIANT NoLostWakeup
