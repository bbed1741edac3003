SPECIFICATION FairSpec
CONSTANTS
    Connections = {a}
    NoConnection = none
    MaxRequests <- Sent
    Requests = 3
    Unreliable = {a}
    maximum_in_flight = 2
    request_queue_capacity = 1
    max_durable_batch_size = 1
    MaxPending = 1
    MaxOutput = 1
    WorkerThrows = TRUE
INVARIANT AdmissionInOrder
PROPERTY StopCompletes
PROPERTY ReadsResume
