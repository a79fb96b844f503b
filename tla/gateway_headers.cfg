SPECIFICATION Spec
CONSTANTS
    blue = blue
    p = p
    q = q
    name = name
    secret = secret
    c1 = c1
    c2 = c2
    Teams = {blue}
    Principals = {p}
    TeamOf <- OneKey
    BudgetOf <- OneBudget
    RpmOf <- OneRate
    Window = 1
    MaxClock = 0
    Prompts = {name, secret}
    Versions = {1, 2}
    Verdict <- TwoPolicies
    Requests <- TwoRequests
    Outcomes <- AnyOutcomes
    Suspends = TRUE
    MaxFaults = 0
    Slots = {c1, c2}
    MaxRequests = 2
    MaxBoots = 0

INVARIANTS
    HeadersOnEveryCall
