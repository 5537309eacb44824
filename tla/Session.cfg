SPECIFICATION Spec
CONSTANTS
    ann = ann
    ina = ina
    Tabs = {t1}
    Calls = {c1, c2}
    Emails = {ann, ina}
    RoleOf <- MCRoleOf
    Unlinked = {ina}
    NoOne = NoOne
    Watched = {}
INVARIANTS
    SessionTypeOK
    SessionsAreEarned
    UserHasToken
    ForbiddenIsExplained
PROPERTIES
    CallsEnd
    RedirectsEnd
    LogoutSignsOut
