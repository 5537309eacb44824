SPECIFICATION Spec
CONSTANTS
    NumStages = 3
    Requests = {r1, r2}
    Dates = {d1}
    NoDate = NoDate
    Watched = {"INSPECTION_PASSED", "INSPECTION_FAILED"}
SYMMETRY RequestSymmetry
INVARIANTS
    TypeOK
    GateOrder
    CertificateSound
    UnlockNeverRefused
    HandlersConsistent
    AuditTruthful
PROPERTIES
    NothingUndone
    KeepsLedger
CHECK_DEADLOCK FALSE
