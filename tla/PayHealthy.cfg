SPECIFICATION PayHealthySpec
CONSTANTS
    NumStages = 1
    Requests = {r1, r2, p1}
    Payments = {p1}
    NoPayment = NoPayment
    PostedUrls = {"absent", "own"}
    Dates = {d1}
    NoDate = NoDate
    Watched = {}
INVARIANTS
    PaidAdvancesStage
    LivePaidIsMoney
PROPERTIES
    SimulatedSettles
    SettledIsFinal
CHECK_DEADLOCK FALSE
