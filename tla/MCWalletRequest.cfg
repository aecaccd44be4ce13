CONSTANTS
    x = x  y = y
    Strings = {}
    Objects = {x, y}
    Spellings = {1}
    CustomOperators = {}
    Entities = {"rp", "int", "ta", "tmi"}
    Types = {"verifier", "other", "federation"}
    Params <- MCParams
    Chains <- MCChains
    AnchorKeys <- MCAnchorKeys
    MarkIssuerKeys <- MCMarkIssuerKeys
    Deferred <- MCDeferred
    Modes = {"validate", "structure", "publication", "prepare"}
    Audience = "op"
    Skew = 1
    MaxTime = 4
    Candidates <- MCCandidates
    Requests <- MCRequests
    Queries <- VQ
    ProtocolKeys <- VK
    KeyOf <- MCKeyOf
SPECIFICATION WalletSpec
INVARIANTS ChainAuthentic PoliciesSettled PreparationStands MarksAuthentic QueriesJustified
