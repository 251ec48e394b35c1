SPECIFICATION Spec
CONSTANTS
    Files = {f1}
    Issues = {i1}
    Volumes = {v1}
    LocalIds = {l1}
    Requests = {r1}
    Matchers = {m1}
    MaxWaiting = 1
    Null = Null
SYMMETRY MCSymmetry
INVARIANT SettledStaysSettled
CHECK_DEADLOCK FALSE
