SPECIFICATION StoresSpec
CONSTANTS
    Parts = {"local"}
    Publishers = {p1}
    Volumes = {v1}
    Issues = {i1, i2}
    Requests = {r1, r2}
    None = None
    LocalIds = {l1, l2}
    Entries = {e1, e2, e3}
    Numbers = {n1}
    Edits = {d1, d2}
    Nowhere = Nowhere
    Callers = {c1, c2}
    Interval = 2
    Tolerance = 2
    MaxInlineWait = 1
    KeyTTL = 5
    Penalties = {3}
    MaxRetries = 0
    Starts = {0}
    Horizon = 5
SYMMETRY MCSymmetry
VIEW MCView
PROPERTY EntriesSurvive
CHECK_DEADLOCK FALSE
