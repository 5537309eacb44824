SPECIFICATION HealthySpec
CONSTANTS
    NumStages = 5
    Requests = {r1}
    Dates = {d1}
    NoDate = NoDate
    Watched <- Evidence
INVARIANTS
    RowsAgree
    OneNextAction
    AuditComplete
PROPERTIES
    KeepsContract
    PassCarriesOn
CHECK_DEADLOCK FALSE
