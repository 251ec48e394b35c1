SPECIFICATION StoresSpec
CONSTANTS
    Parts = {"cache", "local", "pacer"}
    Publishers = {p1}
    Volumes = {v1}
    Issues = {i1, i2}
    Requests = {r1, r2}
    None = None
    LocalIds = {l1, l2, l3}
    Entries = {e1, e2, e3}
    Numbers = {n1}
    Edits = {d1, d2}
    Nowhere = Nowhere
    Callers = {c1, c2}
    Interval = 2
    Tolerance = 2
    MaxInlineWait = 1
    KeyTTL = 4
    Penalties = {3, 6}
    MaxRetries = 1
    Starts = {3}
    Horizon = 5
SYMMETRY MCSymmetry
VIEW MCView
INVARIANTS ReferencesExist NumbersApart RateBound
PROPERTIES RicherDataKept EntriesKept CooldownKept
CHECK_DEADLOCK FALSE
