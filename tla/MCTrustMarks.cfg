\* Three callers that issue and revoke marks and register a subordinate.
CONSTANTS
    c1 = c1  c2 = c2  c3 = c3
    Callers = {c1, c2, c3}
    Subjects = {"s1"}
    Untracked = {}
    Calls <- TrustMarkCalls
    Keep = Keep  NoRecord = NoRecord  NoDraft = NoDraft
    Metadata = {0, 1}  MetadataPolicy = {0, 1}  Jwks = {0, 1}
    Registrations <- MCRegistrations
    Updates <- MCUpdates
    Nonces = {0, 1}
    Ttl = 1
    MaxCalls = 5
    MaxTime = 2
SYMMETRY CallerSymmetry
SPECIFICATION Spec
INVARIANTS AtMostOneValid
PROPERTIES MarksPermanent AnswerHonest
