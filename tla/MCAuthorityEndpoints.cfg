\* Walks over three subjects in pages of one and two; status of their marks.
CONSTANTS
    Subjects = {1, 2, 3}
    NoRow = NoRow  NoCursor = NoCursor
    Scenarios <- MCScenarios
    Filters = {"all", "marked", "recent"}
    Limits = {1, 2}
    MarkPage = 1
    Since = 1
    Ttl = 2
    Skew = 1
    MaxKid = 2
    MaxTime = 3
SPECIFICATION Spec
INVARIANT PagesExhaustive
PROPERTY StatusForward
CHECK_DEADLOCK FALSE
