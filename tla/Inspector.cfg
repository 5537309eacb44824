SPECIFICATION TabSpec
CONSTANTS
    NumStages = 1
    Requests = {r1}
    Dates = {d1}
    NoDate = NoDate
    Watched = {}
    Clicks = {c1, c2}
    None = None
INVARIANTS
    InspectorTypeOK
    DoneIsRecorded
    PassedStaysGone
PROPERTIES
    SignOffEnds
CHECK_DEADLOCK FALSE
