SPECIFICATION MCSpec
SYMMETRY Symmetry
CONSTANTS
    None = None
    i1 = i1
    p1 = p1
    p2 = p2
    p3 = p3
    g1 = g1
    g2 = g2
    h1 = h1
    h2 = h2
    q1 = q1
    q2 = q2
    c1 = c1
    c2 = c2
    s1 = s1
    s2 = s2
    d1 = d1
    d2 = d2
    Invoices <- MCInvoices
    Total <- MCTotal
    Payments = {p1, p2, p3}
    TxnIds = {g1, g2, g3}
    Handlers = {h1, h2}
    Requests = {q1, q2}
    Events <- MixedEvents
    MaxFaults = 0
    Students = {s1, s2}
    Classes = {c1, c2}
    Codes = {d1, d2}
    WithAccount = {s1}
    Clerks = {k1}
    Closers = {f1}
    Registrars = {e1}
    Periods = {1}
    Month <- MCMonth
    InitialEnrollments <- MCInitialEnrollments
    InitialRates <- MCInitialRates
    InitialCodes <- MCInitialCodes
    RateTables <- MCRateTables
    Bodies <- MCBodies
    Reductions <- MCReductions
    Fee = 1
    MaxMoney = 3
    MaxAttempts = 2
    MaxDay = 1
    MaxInvoices = 3
    MaxChanges = 1
    Exam = {x1}
    Candidates = {h1, h2}
    Desks = {q1, q2}
    Examiners = {q1, q2}
    MaxRank = 2
    MaxPlaces = 2
    RankEdits = 1
INVARIANTS
    PaidIffSettled
    NeverOverSettled
    OnePendingPerInvoice
    NumbersGapless
    MoneyAddsUp
    CloseLosesOnlyRaces
    FeeWithRegistration
PROPERTIES
    ReceiptLifecycle
    ImplementsLedger
    RegisteringNeverOverbooks
    BeltNeverMovesDown
CHECK_DEADLOCK FALSE
