SPECIFICATION Spec
CONSTANTS
    Nil = Nil
    L = L
    F = F
    Server = {L, F}
    Command = {}
    LogCap = 9
    MaxShared = 4
    MaxFork = 1
    MaxOwn = 3
INVARIANTS
    AppliedAgrees
PROPERTIES
    CatchesUp
