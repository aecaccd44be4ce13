\* Three callers of the lifecycle of one subject and of direct writes of another.
CONSTANTS
    c1 = c1  c2 = c2  c3 = c3
    Callers = {c1, c2, c3}
    Subjects = {"s1", "s2"}
    Untracked = {"s2"}
    Calls <- LifecycleCalls
    Keep = Keep  NoRecord = NoRecord  NoDraft = NoDraft
    Metadata = {0, 1}  MetadataPolicy = {0, 1}  Jwks = {0, 1}
    Registrations <- MCRegistrations
    Updates <- MCUpdates
    Nonces = {}
    Ttl = 1
    MaxCalls = 4
    MaxTime = 1
SPECIFICATION FairSpec
INVARIANTS TimesConsistent HistoryAnswered
PROPERTIES RegistrySpec EveryCallSettles
