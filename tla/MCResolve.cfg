\* Two slots, a walk of at most three levels, every answer and abort, and the
\* three callers of the resolution.
CONSTANTS
    l = l  a = a  b = b  t = t  None = None
    Entities <- MCEntities
    Leaf = l
    Scenarios <- MCScenarios
    MaxDepth = 3
    MaxHints = 2
    MaxConcurrent = 2
    Ops = {"discover", "refresh", "endpoint"}
SPECIFICATION FairSelectSpec
INVARIANTS LimiterSound BudgetRespected ResultSound ResultComplete DiscoveryShortest
PROPERTIES NoFetchAfterAbort Termination
