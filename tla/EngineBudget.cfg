SPECIFICATION Spec
CONSTANTS
    p1 = p1
    p2 = p2
    p3 = p3
    r1 = r1
    r2 = r2
    r3 = r3
    k1 = k1
    k2 = k2
    None = None
    Calls = {p1, p2, p3}
    Requests = {r1, r2}
    Keys = {k1, k2}
    RequestOf <- HedgedRequestOf
    KeyOf <- HedgedKeyOf
    FailuresToOpen = 2
    Lease = 1
    MaxOpen = 2
    OpenFor <- LeaseLongWindows
    MaxAge = 0
    MaxAttempts = 1
    RequestLimit = 2
    DailyLimits = {1, 2}
    MaxDaily = 2
    ErrorClasses = {"INTERNAL"}
    ProbeBound = 1
    Deadlines = TRUE
    StoreFaults = TRUE
    Crashes = TRUE
    LastResorts = FALSE
    Batches = FALSE
INVARIANTS ReservationsExact PaidWithinRequestBudget DailyBudgetSafe
PROPERTIES FollowsLedger NoReservationLeak
