SPECIFICATION ExamSpec
SYMMETRY Symmetry
CONSTANTS
    None = None
    Exam = {x1, x2}
    Candidates = {s1}
    Desks = {d1}
    Examiners = {j1, j2}
    MaxRank = 2
    MaxPlaces = 1
    RankEdits = 0
PROPERTY
    BeltNeverMovesDown
CHECK_DEADLOCK FALSE
