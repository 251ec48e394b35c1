SPECIFICATION Spec
CONSTANTS
    Files = {f1}
    Issues = {i1}
    Volumes = {v1}
    LocalIds = {l1, l2}
    Requests = {r1, r2}
    Matchers = {m1}
    MaxWaiting = 1
    Null = Null
SYMMETRY MCSymmetry
INVARIANT DecisionsIntact
PROPERTY SettledKeptFromMatcher
PROPERTY BulkKeepsDecisions
PROPERTY LateVerdictsOnly
CHECK_DEADLOCK FALSE
