SPECIFICATION InstallSpec
CONSTANTS
    Nil = Nil
    s1 = s1
    s2 = s2
    s3 = s3
    Server = {s1, s2, s3}
    L = s1
    Command = {}
    LogCap = 9
    MaxTerm = 4
    MaxRestarts = 0
    MaxCalls = 1
    MaxInstalls = 1
SYMMETRY Symmetry
ACTION_CONSTRAINTS Eager OneRival LastTermLate
INVARIANT MatchHeld
\* The bounds stop the system, it does not.
CHECK_DEADLOCK FALSE
