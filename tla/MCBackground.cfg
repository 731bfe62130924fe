SPECIFICATION MCSpec
CONSTANTS
    Rows = 2
    Workers = {w1}
    MaxRetries = 3
    BatchSize = 2
    MaxOutboxFaults = 2
    Configured = {"EMAIL"}
    Channels = {"ZNS", "EMAIL", "INAPP"}
    Entries = 7
    AuditBatch = 2
    MaxQueue = 3
    AuditFaults = 3
    None = None
    i1 = i1
    p1 = p1
    p2 = p2
    g1 = g1
    g2 = g2
    Invoices <- MCInvoices
    Total <- MCTotal
    Payments = {p1, p2}
    TxnIds = {g1, g2}
    Handlers = {h1, h2}
    Requests = {q1}
    Events <- SoleEvents
    MaxFaults = 1
INVARIANTS
    ExtraCopiesNeedFaults
    NothingLost
    StoredInOrder
    AckedTransferRecorded
    WrongAmountNeverSettles
PROPERTIES
    EveryRowFinishes
    EventuallyStored
    TransferEventuallyRecorded
CHECK_DEADLOCK FALSE
