SPECIFICATION Spec
CONSTANTS
    blue = blue
    p = p
    q = q
    name = name
    secret = secret
    c1 = c1
    c2 = c2
    Teams = {blue}
    Principals = {p}
    TeamOf <- OneKey
    BudgetOf <- OneBudget
    RpmOf <- OneRate
    Window = 1
    MaxClock = 1
    Prompts = {name, secret}
    Versions = {1, 2}
    Verdict <- TwoPolicies
    Requests <- TwoRequests
    Outcomes <- AnyOutcomes
    Suspends = TRUE
    MaxFaults = 1
    Slots = {c1, c2}
    MaxRequests = 2
    MaxBoots = 1
SYMMETRY Symmetry
INVARIANTS
    TypeOK
    DecisionStands
    AnswersAudited
    OpenIsUnanswered
    FallbackIsTold
    SpendMatchesAudit
PROPERTIES
    LimitsSpec
