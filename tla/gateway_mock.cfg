SPECIFICATION FairSpec
CONSTANTS
    blue = blue
    p = p
    q = q
    name = name
    secret = secret
    c1 = c1
    c2 = c2
    Teams = {blue}
    Principals = {p, q}
    TeamOf <- TwoKeys
    BudgetOf <- Budgets
    RpmOf <- Rates
    Window = 1
    MaxClock = 1
    Prompts = {name, secret}
    Versions = {1}
    Verdict <- OnePolicy
    Requests <- TwoRequests
    Outcomes <- AnyOutcomes
    Suspends = FALSE
    MaxFaults = 0
    Slots = {c1, c2}
    MaxRequests = 3
    MaxBoots = 0
INVARIANTS
    WithinBudget
PROPERTIES
    EveryCallEnds

