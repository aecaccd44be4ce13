CONSTANTS
    Calls = {1, 2, 3, 4}
    AnchorOf <- MCAnchorOf
    Entities = {1, 2, 3, 4}
    Listing <- MCListing
    RootExp <- MCRootExp
    ConfigExp <- MCConfigExp
    StatementExp <- MCStatementExp
    Refused <- MCRefused
    Excluded = {3}
    MarkOf <- MCMarkOf
    IssuersOf <- MCIssuersOf
    IssuerExp <- MCIssuerExp
    IssuerCost <- MCIssuerCost
    FilterUntil <- MCFilterUntil
    Inventory <- MCInventory
    Collects = {TRUE, FALSE}
    MaxFetches = 9
    OpenPerIssuer = 2
    OpenTotal = 3
    MaxEntities = 5
    MaxDepth = 2
    Skew = 1
    MaxTime = 2
    Readers = {1}
    AnchorAsked <- MCAnchorAsked
    Filters = {"listed"}
    PageSize = 1
    CursorTtl = 3
    Retention = 1
    MaxSnapshots = 2
    MaxCursors = 1
    MaxPages = 2
    MaxCalls = 3
    MaxAborts = 1
SPECIFICATION Spec
INVARIANTS SnapshotComplete RefreshesSerial PagesAgree
PROPERTIES OptionalNeverFatal CurrentStays
CHECK_DEADLOCK FALSE
