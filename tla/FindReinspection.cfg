SPECIFICATION HealthySpec
CONSTANTS
    NumStages = 2
    Requests = {r1}
    Dates = {d1}
    NoDate = NoDate
    Watched = {}
INVARIANTS
    QueuedStageCanBeSignedOff
CHECK_DEADLOCK FALSE
