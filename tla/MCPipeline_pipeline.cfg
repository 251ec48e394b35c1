SPECIFICATION MCSpec
CONSTANTS
    Files = {f1}
    Jobs = {j1, j2, j3, j4}
    Workers = {w1}
    Admins = {a1, a2}
    Kinds = {"scans", "stirs", "queue"}
    Retries = 1
    MaxFaults = 1
    MaxLimits = 1
    MaxPasses = 1
    Null = Null
    Paths = {p1}
    Libraries = {l1}
    LibraryOf <- MCLibrary
    Corrupt = {}
    Malformed = {f1}
    Size <- MCSize
    Mtimes = {1}
    MaxChanges = 3
    MaxScanFaults = 1
    None = None
INVARIANT JobsAccounted
PROPERTIES StoredIsHandedIn NoFileForgotten Settles LibraryMatched
CHECK_DEADLOCK FALSE
