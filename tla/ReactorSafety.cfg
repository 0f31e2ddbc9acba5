\* Two descriptors, three slots (one more than the descriptors, for the retired
\* agent that is not deleted yet), a batch too small for everything ready.
CONSTANTS
    Agents = {a1, a2, a3}
    Fds = {f1, f2}
    Listener = Listener
    NoFd = NoFd
    NoPtr = NoPtr
    EventSize = 2
    Period = 1
    IovMax = 1
    MaxRx = 1
    MaxBacklog = 1
SPECIFICATION Spec
SYMMETRY Interchangeable
INVARIANTS TypeOK NoDanglingEvent OneEventEach FdAgreement PendingOutputArmed ListedOnce PassesAreSeparate TimersOwned SnapshotHolds
PROPERTIES StepsAsLifecycle
