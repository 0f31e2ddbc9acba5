\* One agent is enough.
CONSTANTS
    Agents = {a1}
    MaxRef = 1
    CounterMod = 4
SPECIFICATION Spec
INVARIANTS NumbersEqual
