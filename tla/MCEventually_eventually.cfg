SPECIFICATION EventuallySpec
CONSTANTS
    Parts = {"errors", "polls", "scans"}
    Covers = {c1}
    Operators = {o1}
    MaxChanges = 2
    Entities = {e1, e2}
    Polls = {q1, q2}
    MaxAttempts = 2
    MaxErrors = 1
    Paths = {p1, p2}
    Contents = {x1, x2, x3}
    Libraries = {l1}
    Corrupt = {x2}
    Malformed = {x3}
    None = None
PROPERTIES UnreadableIsListed RepairedIsUnlisted CompleteIsTrue PollingEnds CardsComeIn Converges
CHECK_DEADLOCK FALSE
