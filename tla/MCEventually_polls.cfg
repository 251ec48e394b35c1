SPECIFICATION EventuallySpec
CONSTANTS
    Parts = {"polls"}
    Covers = {c1}
    Operators = {o1}
    MaxChanges = 2
    Entities = {e1, e2}
    Polls = {q1, q2}
    MaxAttempts = 2
    MaxErrors = 0
    Paths = {p1, p2}
    Contents = {x1, x2, x3}
    Libraries = {l1}
    Corrupt = {x2}
    Malformed = {x3}
    None = None
PROPERTY IssuesComplete
CHECK_DEADLOCK FALSE
