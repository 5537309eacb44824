SPECIFICATION Spec
CONSTANTS
    Actors = {ann, ben, clerk}
    Applicants = {ann, ben}
    Seeds = {s1, s2}
    SeedRefs <- MCSeedRefs
    Creates = {p1, p2}
    Clock = {3, 5}
    NoActor = NoActor
INVARIANTS
    RegistryTypeOK
    RefsAreUnique
    AnswerIsOwnPermit
PROPERTIES
    PermitsAreKept
    ApplicationsEnd
CHECK_DEADLOCK FALSE
