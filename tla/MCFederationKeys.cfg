\* Two initial keys and two to roll in: successive switches, the fallback to the second
\* initial key, lockout; overlaps of one and two ticks meet a revocation in any order.
CONSTANTS
    Kids = {k1, k2, k3, k4}
    InitialKids = {k1, k2}
    RetireAfterMs = {1, 2}
    MinRetireMs = 1
    MsPerSecond = 2
    MaxTime = 2
SPECIFICATION Spec
SYMMETRY KidSymmetry
INVARIANTS SupersededForGood RecentSignerPublished HistoryCoversSignatures
PROPERTY NoSignerAfterLockout
