SPECIFICATION WorldSpec
CONSTANTS
    p1 = p1
    p2 = p2
    p3 = p3
    r1 = r1
    r2 = r2
    r3 = r3
    k1 = k1
    k2 = k2
    None = None
    Calls = {p1, p2}
    Requests = {r1, r2}
    Keys = {k1}
    RequestOf <- MCRequestOf
    KeyOf <- MCKeyOf
    FailuresToOpen = 2
    Lease = 2
    MaxOpen = 2
    OpenFor <- ShortAndLongWindows
    MaxAge = 1
    MaxAttempts = 2
    RequestLimit = 2
    DailyLimits = {}
    MaxDaily = 0
    ErrorClasses = {"AUTH", "TRANSIENT"}
    ProbeBound = 2
    Deadlines = TRUE
    StoreFaults = TRUE
    Crashes = FALSE
    LastResorts = TRUE
    Batches = TRUE
VIEW WorldView
SYMMETRY CallSymmetry
INVARIANTS ProbesHeld
PROPERTIES SevereBlockNeedsProbe
