\* refreshTrustChain over a federation with two chains of different lengths;
\* the budget suffices for the whole walk.
CONSTANTS
    l = l  a = a  b = b  t = t  None = None
    Entities <- MCEntities
    Leaf = l
    Scenarios <- MCTwoChains
    MaxDepth = 3
    MaxHints = 2
    MaxConcurrent = 2
    Ops = {"refresh"}
SPECIFICATION SelectSpec
INVARIANT RefreshShortest
