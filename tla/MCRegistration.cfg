\* Two calls of the RP or one and a foreign request; up to four automatic
\* requests and client assertions against a store of two claims.
CONSTANTS
    a1 = a1  a2 = a2  cc = cc  ro = ro  fo = fo  ja = ja  jc = jc  jr = jr  jf = jf
    c1 = c1  c2 = c2  r1 = r1  r2 = r2  r3 = r3  r4 = r4
    None = None
    Requests = {r1, r2, r3, r4}
    Messages = {a1, a2, cc, ro, fo}
    Tuples = {ja, jc, jr, jf}
    tuple <- MCTuple
    exp <- MCExp
    kind <- MCKind
    Skew = 1
    MaxEntries = 2
    MaxTime = 4
    Calls = {c1, c2}
    Workloads <- MCWorkloads
    RpChains <- MCRpChains
    OpChains <- MCOpChains
    RpAnchors = {"t1", "t2", "t3"}
    OpAnchors = {"t1", "t2"}
    ResponseTtl = 2
    RequestTtl = 1
    ObjectTtl = 1
    ForeignObjects = {fo}
SPECIFICATION RegistrationSpec
INVARIANTS AssertionOnce MutualTrust RefusalExplained RecordsAgree
CHECK_DEADLOCK FALSE
