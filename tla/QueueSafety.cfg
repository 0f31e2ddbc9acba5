\* Two producers, two consumers; three nodes, so that a deleted one is soon used
\* again; a semaphore and a counter that reach their limits.
CONSTANTS
    Producers = {p1, p2}
    Consumers = {c1, c2}
    Values = {v1}
    NoValue = NoValue
    Nodes = {n1, n2, n3}
    Satellite = Satellite
    NoNode = NoNode
    Unlocked = Unlocked
    SemMax = 3
    CountMod = 2
SPECIFICATION Spec
SYMMETRY Interchangeable
INVARIANTS TypeOK ListIsChain NodesOwned NoUseAfterFree NobodyOversleeps
