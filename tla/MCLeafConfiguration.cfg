\* Three callers: a build, the refresh that supersedes it, and a reader of either.
CONSTANTS
    Callers = {c1, c2, c3}
    None = None
    TtlSeconds = 1
    MaxGeneration = 2
    MaxVersion = 1
    MaxTime = 1
SPECIFICATION FairSpec
INVARIANTS FreshAfterRefresh SingleFlight
PROPERTY EveryCallAnswered
