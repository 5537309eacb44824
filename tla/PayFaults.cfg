SPECIFICATION PaySpec
CONSTANTS
    NumStages = 1
    Requests = {r1, p1, p2}
    Payments = {p1, p2}
    NoPayment = NoPayment
    PostedUrls = {"absent", "empty", "own", "other"}
    Dates = {d1}
    NoDate = NoDate
    Watched = {}
SYMMETRY PaySymmetry
INVARIANTS
    PayTypeOK
    PaidStageHasPayment
CHECK_DEADLOCK FALSE
