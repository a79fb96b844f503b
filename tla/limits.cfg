SPECIFICATION Spec
CONSTANTS
    blue = blue
    p = p
    q = q
    Teams = {blue}
    Principals = {p, q}
    TeamOf <- TwoKeys
    BudgetOf <- Budgets
    RpmOf <- Rates
    Window = 2
    MaxOpen = 2
    MaxClock = 5
    MaxAdmissions = 6
CONSTRAINT AdmissionBound
INVARIANTS
    TypeOK
    WindowIsRecent
    RateLimitHolds
    OverspendBounded
