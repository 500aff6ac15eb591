\* A cycle, the news, two reviews and a request for the usage, over two
\* proposals and one older rule; days and months change; two crashes.
CONSTANTS
    Ids = {p1, p2}
    OldRules <- OneOldRule
    ContextRules = 1
    Decisions = {d}
    News = {n}
    Reviews = {r1, r2}
    Refreshes = {f}
    MaxUsage = 2
    Estimates = {1}
    CycleLimit = 0
    Budgets = {1, 2}
    PeriodsPerDay = 1
    DaysPerMonth = 2
    Waits = {1}
    Reports = {0, 1}
    MaxTime = 2
    MaxTotal = 3
    MaxCrashes = 2
SPECIFICATION Spec
SYMMETRY Alike
CONSTRAINT Scope
INVARIANTS BudgetOvershoot PendingAreFew NothingApprovedIsLost InForceOnce LatestRuleIsAsked
PROPERTIES PauseLasts ReportsInOrder
