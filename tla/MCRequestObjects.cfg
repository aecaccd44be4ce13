\* Two requests that present one Request Object.
CONSTANTS
    Requests = {r1, r2}
    Messages = {ro}
    Tuples = {jr}
    tuple <- MCTuple
    exp <- MCExp
    kind <- MCKind
    Skew = 2
    MaxEntries = 2
    MaxTime = 4
SPECIFICATION Spec
INVARIANT RequestObjectOnce
