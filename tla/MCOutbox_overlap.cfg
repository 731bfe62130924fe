SPECIFICATION OutboxSpec
CONSTANTS
    Rows = 1
    Workers = {w1, w2}
    MaxRetries = 2
    BatchSize = 2
    MaxOutboxFaults = 0
    Configured = {"EMAIL"}
    Channels = {"EMAIL"}
INVARIANT
    NoDoubleSend
CHECK_DEADLOCK FALSE
