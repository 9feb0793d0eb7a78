SPECIFICATION Spec
CONSTANTS
    r1 = r1
    r2 = r2
    Router = {r1, r2, r3}
    Source <- OneName
    User = {1, 2}
    SessionId = {1, 2, 3}
    Instant = {1, 2}
    WalkFilter <- Histories
    PageSize = 1
    Telemetry <- Logons
    None = None
SYMMETRY Symmetry
INVARIANTS WalkMissesNothing SummaryHoldsTogether CountsMatchListings
PROPERTY HistoryOnlyGrows
