\* Three agents, up to two references each, counters that wrap.
CONSTANTS
    Agents = {a1, a2, a3}
    MaxRef = 2
    CounterMod = 5
SPECIFICATION Spec
INVARIANTS UnreferencedListed CountersTell
