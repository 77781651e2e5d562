SPECIFICATION InstallSpec
CONSTANTS
    Nil = Nil
    s1 = s1
    s2 = s2
    s3 = s3
    Server = {s1, s2, s3}
    L = s1
    Command = {}
    LogCap = 9
    MaxTerm = 3
    MaxRestarts = 0
    MaxCalls = 0
    MaxInstalls = 0
SYMMETRY Symmetry
INVARIANTS ElectedOnce
\* The bounds stop the system, it does not.
CHECK_DEADLOCK FALSE
