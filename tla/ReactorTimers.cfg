\* Two connections with a timer each, peers that send nothing.
CONSTANTS
    Agents = {a1, a2}
    Fds = {f1, f2}
    Listener = Listener
    NoFd = NoFd
    NoPtr = NoPtr
    EventSize = 1
    Period = 1
    IovMax = 1
    MaxRx = 0
    MaxBacklog = 1
SPECIFICATION LoopFairSpec
PROPERTIES OverdueTimerServed
