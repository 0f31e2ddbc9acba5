\* One descriptor, used again and again by two slots; the batch takes everything
\* that is ready, as the 100 entries of RunControl::init do.  No symmetry.
CONSTANTS
    Agents = {a1, a2}
    Fds = {f1}
    Listener = Listener
    NoFd = NoFd
    NoPtr = NoPtr
    EventSize = 3
    Period = 1
    IovMax = 1
    MaxRx = 1
    MaxBacklog = 1
SPECIFICATION FairSpec
PROPERTIES PeerGoneReclaimed ImplementsLifecycle
