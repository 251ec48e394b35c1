SPECIFICATION ServicesSpec
CONSTANTS
    Parts = {"revalidate", "accounts", "reading", "matcher", "page", "listing", "queue", "duplicates"}
    Callers = {c1, c2}
    Lanes = {n1, n2}
    MaxAsks = 2
    MaxCooldowns = 1
    MaxCuts = 1
    Names = {u1, u2}
    Requests = {r1, r2}
    Tokens = {k1, k2}
    TTL = 2
    MaxBroken = 1
    NoUser = NoUser
    NoToken = NoToken
    Tabs = {t1, t2}
    Saves = {s1, s2}
    PageCount = 2
    MaxOpened = 2
    MaxSent = 3
    CandidateVolumes = {1, 2, 3}
    MatchFiles <- MCMatchFiles
    MaxFetch = 2
    YearFloor = 1930
    NoYear = NoYear
    Own = {1, 2, 3}
    Elsewhere = {7, 8}
    Arcs = {1, 2}
    PageSize = 2
    VolumePages <- MCVolumePages
    CvVolumes = {1, 2}
    LocalVolumes = {3}
    OwnedFiles = {1, 2, 3}
    Issues <- MCIssues
    Name <- MCName
    StartYear <- MCStartYear
    Count <- MCCount
    Counted = {1}
    Publisher <- MCPublisher
    Queries <- MCQueries
    PageSizes = {1, 2}
    NoIssue = NoIssue
    MaxChanges = 1
    QueueFiles = {g1, g2, g3}
    Series = {1, 2}
    RowCap = 2
    MaxEvents = 1
    DupFiles = {1, 2, 3, 4}
    DupIssues = {1, 2}
    VolumeOf <- MCVolumeOf
    Measured <- MCMeasured
    Claims <- MCClaims
    NoClaim = 0
    Admins = {a1, a2}
    GroupLimit = 1
    MaxShifts = 1
INVARIANTS OneRefresh NoRequestLost LogoutIsFinal SessionsRevocable LastPageKept
INVARIANTS NoWinnerLost AutoPlausible LimitIsNoVerdict NoStepLost RailsDrawn
INVARIANTS PagesJoin ReadWithinOwned GroupsWhole LastCopyKept GroupsAccounted
PROPERTY FinishedStays
CHECK_DEADLOCK FALSE
