SPECIFICATION HealthySpec
CONSTANTS
    NumStages = 2
    Requests = {r1, r2}
    Dates = {d1}
    NoDate = NoDate
    Watched = {}
INVARIANTS
    PassIsKept
CHECK_DEADLOCK FALSE
