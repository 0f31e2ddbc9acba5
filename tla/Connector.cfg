\* Two agents, two descriptors, one attempt after the first.
CONSTANTS
    Agents = {a1, a2}
    Fds = {f1, f2}
    NoFd = NoFd
    NoPtr = NoPtr
    MAXRECONNECTTIMES = 1
SPECIFICATION FairSpec
INVARIANTS NoDanglingEvent DescriptorsOwned ToldOfConnection WordFollowsData RetriesBounded
PROPERTIES AttemptSettled
