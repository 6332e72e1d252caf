SPECIFICATION RecoverySpec
CONSTANTS
    p1 = p1
    p2 = p2
    r1 = r1
    r2 = r2
    k1 = k1
    None = None
    Calls = {p1, p2}
    Requests = {r1, r2}
    Keys = {k1}
    RequestOf <- MCRequestOf
    KeyOf <- MCKeyOf
    FailuresToOpen = 2
    Lease = 1
    MaxOpen = 1
    OpenFor <- MCWindows
    MaxAge = 0
    MaxAttempts = 1
    RequestLimit = 1
    DailyLimits = {}
    MaxDaily = 0
    ErrorClasses = {"AUTH", "TRANSIENT"}
    ProbeBound = 2
    Deadlines = FALSE
    StoreFaults = FALSE
    Crashes = TRUE
    LastResorts = FALSE
    Batches = FALSE
PROPERTIES HealedProviderReturns
