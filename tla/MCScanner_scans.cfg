SPECIFICATION Spec
CONSTANTS
 p3 = p3
    p1 = p1
    p2 = p2
    c1 = c1
    c2 = c2
    l1 = l1
    l2 = l2
    None = None
    Paths = {p1, p2, p3}
    Contents = {c1, c2, c3}
    Libraries = {l1, l2}
    LibraryOf <- MCTwoLibraries
    Corrupt = {c2}
    Malformed = {c3}
    Size <- MCSize
    Mtimes = {1}
    MaxChanges = 3
    MaxFaults = 1
INVARIANT OneJobPerFile FilesDescribed
INVARIANT ScanFaithful
CHECK_DEADLOCK FALSE
