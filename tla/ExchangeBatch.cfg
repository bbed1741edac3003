SPECIFICATION Spec
CONSTANTS
    Connections = {a}
    NoConnection = none
    MaxRequests <- Sent
    Requests = 2
    Unreliable = {a}
    maximum_in_flight = 2
    request_queue_capacity = 1
    max_durable_batch_size = 2
    MaxPending = 4
    MaxOutput = 1
    WorkerThrows = FALSE
INVARIANT BatchWasQueued
