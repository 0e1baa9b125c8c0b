SPECIFICATION Spec
CONSTANTS
    linkA = linkA
    linkA2 = linkA2
    linkB = linkB
    linkB2 = linkB2
    dAppA = dAppA
    dAppB = dAppB
    Links = {linkA, linkA2, linkB, linkB2}
    Apps = {dAppA, dAppB}
    AppOf <- AppsOfLinks
    MaxPerHost = 2
    Haste = FALSE
    MaxScans = 2
    MaxEvents = 2
    MaxCalls = 5
    MaxActivities = 2
SYMMETRY Symmetry
INVARIANTS TypeOK AckedWasHandled SettledMatches PostsMove
CHECK_DEADLOCK FALSE
