\* Two consumers that compete for what one producer puts, two values so that
\* their order shows, two nodes so that the list is full, empty and reused.
CONSTANTS
    Producers = {p1}
    Consumers = {c1, c2}
    Values = {v1, v2}
    NoValue = NoValue
    Nodes = {n1, n2}
    Satellite = Satellite
    NoNode = NoNode
    Unlocked = Unlocked
    SemMax = 2
    CountMod = 1
SPECIFICATION FairSpec
PROPERTIES ImplementsFifo
