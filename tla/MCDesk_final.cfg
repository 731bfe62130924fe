SPECIFICATION MCSpec
SYMMETRY Symmetry
CONSTANTS
    None = None
    adm = adm
    ins = ins
    aid = aid
    stu = stu
    par = par
    s1 = s1
    s2 = s2
    c1 = c1
    q1 = q1
    q2 = q2
    Classes = {c1}
    Students = {s1, s2, s3}
    Rows = {r1, r2, r3}
    Clerks = {q1, q2}
    Editors = {adm}
    MaxCapacity = 2
    MaxDay = 1
    Role <- MCRole
    Reach <- MCReach
    Account <- MCAccount
    Instructor <- MCInstructor
    Joined <- MCJoined
    LeaveUsers = {adm, ins, par}
    ProposalUsers = {adm, ins}
    EvaluationUsers = {adm, ins, aid}
    RollUsers = {adm, ins}
    ConsentUsers = {stu, par}
    BoardUsers = {adm, ins, aid, stu}
    FileStudents = {s1}
    RollStudents = {s1, s2}
    LeaveRows = {q1, q2}
    ProposalRows = {r1, r2, r3}
    EvaluationRows = {q1, q2}
    ConsentRows = {r1, r2, r3}
    BoardRows = {q1, q2}
    Ranks = {1}
    Notes = {n1, n2}
    Periods = {1}
    Ratings = {1}
    Purposes = {p1}
    Rolls <- MCRolls
    Days <- MCDays
    DaysPerMonth = 1
    Sids = {s1}
    Pairs = {1, 2, 3}
    AuthCalls = {q1, q2}
    MaxVersion = 1
PROPERTY
    DecisionsAreFinal
CHECK_DEADLOCK FALSE
