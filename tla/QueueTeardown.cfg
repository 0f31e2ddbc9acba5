\* One producer, one consumer, and the thread that destroys the queue.
CONSTANTS
    Producers = {p1}
    Consumers = {c1, d1}
    Destroyer = d1
    Values = {v1}
    NoValue = NoValue
    Nodes = {n1, n2}
    Satellite = Satellite
    NoNode = NoNode
    Unlocked = Unlocked
    SemMax = 2
    CountMod = 1
SPECIFICATION TeardownSpec
PROPERTIES DestructorReturns
\* The system is at rest when the queue is destroyed.
CHECK_DEADLOCK FALSE
