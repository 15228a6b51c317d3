SPECIFICATION Spec
CONSTANTS
    Thread = {t1, t2}
    Lister = {t1}
    Page = {p0, p1, p2}
    FirstPage = p0
    NoPage = NoPage
    Resume = {p0, p1}
    NoToken = NoToken
    all = all
    NoLimit = all
    Limits <- MCLimits
    PageSize = 2
    MaxPages = 3
    MaxAttempts = 2
    MaxAgain = 1
    LogSize = 2
    MaxExpiries = 2
INVARIANTS
    NewTokenAfterDenial
    ListingIsExact
PROPERTIES
    ReportIsExact
CHECK_DEADLOCK FALSE
