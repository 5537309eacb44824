SPECIFICATION PageSpec
CONSTANTS
    NumStages = 1
    Requests = {r1, p1}
    Payments = {p1}
    NoPayment = NoPayment
    PostedUrls = {"absent", "empty", "own", "other"}
    Dates = {d1}
    NoDate = NoDate
    Watched = {}
INVARIANTS
    PageTypeOK
    SuccessIsPaid
    ViewNeverAhead
PROPERTIES
    DialogSettles
CHECK_DEADLOCK FALSE
