SPECIFICATION MCSpec
SYMMETRY Symmetry
CONSTANTS
    None = None
    Requests = {r1}
    Limit = 1
    AuthLimit = 1
    Profiles = {i1, i2}
    Classes = {c1}
    Codes = {k1, k2, k3}
    Admins = {adm}
    Parents = {j1, j2}
    Accounts = {stu}
    Teachers = {ins}
    Instructor <- MCInstructor
    Calls = {i1, i2}
    Devices = {i1, i2}
    Secrets = {j1, j2}
    RecoveryCodes = {rc}
    MaxTime = 2
    MaxFailures = 2
    BucketTtl = 1
    GuardTtl = 4
    Users = {u1, u2}
    Addresses = {k1, k2}
    Tokens = {j1, j2}
    Flows = {i1, i2}
    ActionTtl = 2
    RowTtl = 2
    Retention = 2
    MailBudget = 1
INVARIANTS
    LinksSpendCodes
    ScopesAgree
    GuardsKeepContract
    CodeAcceptedOnce
    FailuresBounded
    TokensUsedOnce
    VerifiedAddressProven
CHECK_DEADLOCK FALSE
