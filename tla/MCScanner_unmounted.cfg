SPECIFICATION Spec
CONSTANTS
    p1 = p1
    p2 = p2
    c1 = c1
    c2 = c2
    l1 = l1
    l2 = l2
    None = None
    Paths = {p1}
    Contents = {c1}
    Libraries = {l1}
    LibraryOf <- MCLibrary
    Corrupt = {}
    Malformed = {}
    Size <- MCSize
    Mtimes = {1}
    MaxChanges = 2
    MaxFaults = 0
PROPERTY OnlyWalkedReconciled
CHECK_DEADLOCK FALSE
